---- MODULE Spec2Model ----
(***************************************************************************)
(* Model of the rudd BDD engine (package rudd, build tag buddy): the node  *)
(* table with its hash chains and free list, the reference stack, the      *)
(* external handles and their finalizers, the operation caches and the     *)
(* recursive algorithms not, apply, ite, quant, appquant and replace.      *)
(*                                                                         *)
(* An engine is a record b; every function of the Go code that changes the *)
(* engine is an operator that takes the engine and returns the new engine  *)
(* together with its result.                                               *)
(***************************************************************************)
EXTENDS Integers, Sequences, FiniteSets, Bags, TLC

\* ------------------------------------------------------------------------
\* Bounds of the model
\* ------------------------------------------------------------------------

\* number of variables of the engines that are explored
Varnum == 2

\* number of external handles the user keeps at the same time
MaxHandles == 2

\* number of public operations in one behaviour
MaxOps == 2

\* number of variables of the engines whose table cannot grow
DeepVarnum == 3

\* number of public operations in one behaviour of such an engine
DeepOps == 3

\* number of variables, option Nodesize, number of public operations and
\* quantified variable of the engines on which Exist is explored
ExistVarnum == 4

ExistNodesize == 12

ExistOps == 4

ExistVar == 2

\* option Nodesize of the second engine when two engines are compared
TwinNodesize == 16

\* number of Nodes held when the reference counts are explored
RefHandles == 1025

\* number of Nodes held up to which a finalizer may run during a call
RaceHandles == 2

\* ------------------------------------------------------------------------
\* Program constants
\* ------------------------------------------------------------------------

MINFREENODES == 20

MAXREFCOUNT == 1023

DEFAULTMAXNODEINC == 1048576

MARKBIT == 2097152

OPand == 0

OPxor == 1

OPor == 2

OPnand == 3

OPnor == 4

OPimp == 5

OPbiimp == 6

OPdiff == 7

OPless == 8

OPinvimp == 9

opnot == 10

cacheidEXIST == 0

cacheidAPPEX == 3

\* opres[op][left][right]
opres ==
  [op \in 0..9 |->
     CASE op = OPand    -> [l \in 0..1 |-> [r \in 0..1 |-> IF l = 1 /\ r = 1 THEN 1 ELSE 0]]
       [] op = OPxor    -> [l \in 0..1 |-> [r \in 0..1 |-> IF l # r THEN 1 ELSE 0]]
       [] op = OPor     -> [l \in 0..1 |-> [r \in 0..1 |-> IF l = 1 \/ r = 1 THEN 1 ELSE 0]]
       [] op = OPnand   -> [l \in 0..1 |-> [r \in 0..1 |-> IF l = 1 /\ r = 1 THEN 0 ELSE 1]]
       [] op = OPnor    -> [l \in 0..1 |-> [r \in 0..1 |-> IF l = 0 /\ r = 0 THEN 1 ELSE 0]]
       [] op = OPimp    -> [l \in 0..1 |-> [r \in 0..1 |-> IF l = 1 /\ r = 0 THEN 0 ELSE 1]]
       [] op = OPbiimp  -> [l \in 0..1 |-> [r \in 0..1 |-> IF l = r THEN 1 ELSE 0]]
       [] op = OPdiff   -> [l \in 0..1 |-> [r \in 0..1 |-> IF l = 1 /\ r = 0 THEN 1 ELSE 0]]
       [] op = OPless   -> [l \in 0..1 |-> [r \in 0..1 |-> IF l = 0 /\ r = 1 THEN 1 ELSE 0]]
       [] OTHER         -> [l \in 0..1 |-> [r \in 0..1 |-> IF l = 0 /\ r = 1 THEN 0 ELSE 1]]]

\* ------------------------------------------------------------------------
\* Hash functions (uint64 arithmetic)
\* ------------------------------------------------------------------------

RECURSIVE PowMod(_, _, _)
PowMod(x, e, m) ==
  IF e = 0 THEN 1 % m
  ELSE IF e % 2 = 1 THEN (x * PowMod(x, e - 1, m)) % m
  ELSE (PowMod(x, e \div 2, m) * PowMod(x, e \div 2, m)) % m

\* value of uint64(t) % len for a small (possibly negative) integer t
U64Mod(t, len) ==
  IF t >= 0 THEN t % len
  ELSE (PowMod(2, 64, len) + len - ((0 - t) % len)) % len

\* (ua+ub)*(ua+ub+1) wraps to s*(s+1) for s = a+b, whatever the signs
PAIR(a, b, len) ==
  LET s == a + b
  IN  U64Mod(((s * (s + 1)) \div 2) + a, len)

TRIPLE(a, b, c, len) == PAIR(c, PAIR(a, b, len), len)

\* ------------------------------------------------------------------------
\* Prime numbers
\* ------------------------------------------------------------------------

hasFactor(src, n) == (src # n) /\ (src % n = 0)

hasEasyFactors(src) ==
  hasFactor(src, 3) \/ hasFactor(src, 5) \/ hasFactor(src, 7)
    \/ hasFactor(src, 11) \/ hasFactor(src, 13)

ProbablyPrime(n) == n >= 2 /\ \A d \in 2..(n - 1) : d * d > n \/ n % d # 0

RECURSIVE primeGteLoop(_)
primeGteLoop(src) ==
  IF hasEasyFactors(src) THEN primeGteLoop(src + 2)
  ELSE IF ProbablyPrime(src) THEN src
  ELSE primeGteLoop(src + 2)

primeGte(src) == primeGteLoop(IF src % 2 = 0 THEN src + 1 ELSE src)

RECURSIVE primeLteLoop(_)
primeLteLoop(src) ==
  IF hasEasyFactors(src) THEN primeLteLoop(src - 2)
  ELSE IF ProbablyPrime(src) THEN src
  ELSE primeLteLoop(src - 2)

primeLte(src) ==
  IF src = 0 THEN 1
  ELSE primeLteLoop(IF src % 2 = 0 THEN src - 1 ELSE src)

\* ------------------------------------------------------------------------
\* Node table (type tables, build tag buddy)
\* ------------------------------------------------------------------------

\* a slot of the node table
buddynode(refcou, level, low, high, hash, next) ==
  [refcou |-> refcou, level |-> level, low |-> low, high |-> high,
   hash |-> hash, next |-> next]

size(b) == Len(b.nodes)

\* the Go slice b.nodes is the sequence b.nodes, slot n at position n + 1
nd(b, n) == b.nodes[n + 1]

ismarked(nodes, n) == (nodes[n + 1].level \div MARKBIT) % 2 = 1

marknode(nodes, n) ==
  IF ismarked(nodes, n) THEN nodes
  ELSE [nodes EXCEPT ![n + 1].level = @ + MARKBIT]

unmarknode(nodes, n) == [nodes EXCEPT ![n + 1].level = @ % MARKBIT]

ptrhash(nodes, n) ==
  TRIPLE(nodes[n + 1].level, nodes[n + 1].low, nodes[n + 1].high, Len(nodes))

nodehash(b, level, low, high) == TRIPLE(level, low, high, size(b))

\* Sequencing. A step of the program is the set of its possible outcomes;
\* Bind(S, K) runs K on each outcome of the step S.
Bind(S, K(_)) == UNION {K(x) : x \in S}

RECURSIVE markrec(_, _)
markrec(nodes, n) ==
  IF n < 2 \/ ismarked(nodes, n) \/ nodes[n + 1].low = -1 THEN {nodes}
  ELSE Bind({marknode(nodes, n)}, LAMBDA m1 :
       Bind(markrec(m1, m1[n + 1].low), LAMBDA m2 :
       markrec(m2, m2[n + 1].high)))

\* first loop of gbc: protect the nodes of the reference stack
RECURSIVE markstack(_, _, _)
markstack(nodes, refstack, i) ==
  IF i > Len(refstack) THEN {nodes}
  ELSE Bind(markrec(nodes, refstack[i]), LAMBDA m : markstack(m, refstack, i + 1))

\* a mutation of markslot that does not protect the nodes whose count is
\* saturated
markslotUnpinned(nodes, k) ==
  Bind(IF nodes[k + 1].refcou > 0 /\ nodes[k + 1].refcou < MAXREFCOUNT
       THEN markrec(nodes, k) ELSE {nodes}, LAMBDA m :
  {[m EXCEPT ![k + 1].hash = 0]})

\* one slot of the second loop of gbc: protect the node if its count is
\* positive, clear hash
markslot(nodes, k) ==
  Bind(IF nodes[k + 1].refcou > 0 THEN markrec(nodes, k) ELSE {nodes}, LAMBDA m :
  {[m EXCEPT ![k + 1].hash = 0]})

\* second loop of gbc, slots lo to hi in increasing order (the range is split
\* in two to keep the evaluation shallow)
RECURSIVE markcounted(_, _, _)
markcounted(nodes, lo, hi) ==
  IF lo > hi THEN {nodes}
  ELSE IF lo = hi THEN markslot(nodes, lo)
  ELSE Bind(markcounted(nodes, lo, (lo + hi) \div 2), LAMBDA m :
       markcounted(m, ((lo + hi) \div 2) + 1, hi))

\* a mutation of sweepslot that unmarks the node it keeps and does not chain
\* it again
sweepslotUnchained(t, n) ==
  IF ismarked(t.nodes, n) /\ t.nodes[n + 1].low # -1
  THEN {[t EXCEPT !.nodes = unmarknode(t.nodes, n)]}
  ELSE {[t EXCEPT !.nodes = [t.nodes EXCEPT ![n + 1].low = -1,
                                            ![n + 1].next = t.freepos],
                  !.freepos = n,
                  !.freenum = t.freenum + 1]}

\* one slot of the third loop of gbc: a marked slot is unmarked and chained
\* again, any other slot goes to the free list
sweepslot(t, n) ==
  IF ismarked(t.nodes, n) /\ t.nodes[n + 1].low # -1
  THEN Bind({unmarknode(t.nodes, n)}, LAMBDA u :
       Bind({ptrhash(u, n)}, LAMBDA hash :
       Bind({[u EXCEPT ![n + 1].next = u[hash + 1].hash]}, LAMBDA v :
       {[t EXCEPT !.nodes = [v EXCEPT ![hash + 1].hash = n]]})))
  ELSE {[t EXCEPT !.nodes = [t.nodes EXCEPT ![n + 1].low = -1,
                                            ![n + 1].next = t.freepos],
                  !.freepos = n,
                  !.freenum = t.freenum + 1]}

\* third loop of gbc, slots hi down to lo
RECURSIVE sweep(_, _, _)
sweep(t, hi, lo) ==
  IF hi < lo THEN {t}
  ELSE IF hi = lo THEN sweepslot(t, hi)
  ELSE Bind(sweep(t, hi, ((lo + hi) \div 2) + 1), LAMBDA u :
       sweep(u, (lo + hi) \div 2, lo))

\* a mutation of gbc that clears the counts that are not saturated
gbcUncounted(b, refstack) ==
  Bind(markstack(b.nodes, refstack, 1), LAMBDA m1 :
  Bind(markcounted(m1, 0, Len(m1) - 1), LAMBDA m2 :
  Bind({[b EXCEPT !.nodes = [k \in DOMAIN m2 |->
                               IF m2[k].refcou < MAXREFCOUNT
                               THEN [m2[k] EXCEPT !.refcou = 0] ELSE m2[k]],
                  !.freepos = 0, !.freenum = 0, !.didgc = TRUE]}, LAMBDA t :
  sweep(t, Len(m2) - 1, 2))))

gbc(b, refstack) ==
  Bind(markstack(b.nodes, refstack, 1), LAMBDA m1 :
  Bind(markcounted(m1, 0, Len(m1) - 1), LAMBDA m2 :
  Bind({[b EXCEPT !.nodes = m2, !.freepos = 0, !.freenum = 0, !.didgc = TRUE]}, LAMBDA t :
  sweep(t, Len(m2) - 1, 2))))

\* one slot of the last loop of noderesize
rehashslot(t, n) ==
  IF t.nodes[n + 1].low # -1
  THEN Bind({ptrhash(t.nodes, n)}, LAMBDA hash :
       Bind({[t.nodes EXCEPT ![n + 1].next = t.nodes[hash + 1].hash]}, LAMBDA v :
       {[t EXCEPT !.nodes = [v EXCEPT ![hash + 1].hash = n]]}))
  ELSE {[t EXCEPT !.nodes = [t.nodes EXCEPT ![n + 1].next = t.freepos],
                  !.freepos = n,
                  !.freenum = t.freenum + 1]}

\* last loop of noderesize, slots hi down to lo: rebuild the chains and the
\* free list
RECURSIVE rehash(_, _, _)
rehash(t, hi, lo) ==
  IF hi < lo THEN {t}
  ELSE IF hi = lo THEN rehashslot(t, hi)
  ELSE Bind(rehash(t, hi, ((lo + hi) \div 2) + 1), LAMBDA u :
       rehash(u, (lo + hi) \div 2, lo))

MaxInt32 == 2147483647

\* a mutation of resizetarget that takes the larger of the doubled size and
\* of the size plus maxnodeincrease
resizetargetMax(b) ==
  LET oldsize == size(b)
      n1 == IF oldsize > MaxInt32 \div 2 THEN MaxInt32 - 1 ELSE oldsize * 2
      n2 == IF b.maxnodeincrease > 0 /\ n1 < oldsize + b.maxnodeincrease
            THEN oldsize + b.maxnodeincrease ELSE n1
      n3 == IF n2 > b.maxnodesize /\ b.maxnodesize > 0 THEN b.maxnodesize ELSE n2
  IN  IF oldsize >= b.maxnodesize /\ b.maxnodesize > 0 THEN 0
      ELSE IF primeLte(n3) <= oldsize THEN 0
      ELSE primeLte(n3)

\* the size noderesize grows the table to, or 0 when it fails
resizetarget(b) ==
  LET oldsize == size(b)
      n1 == IF oldsize > MaxInt32 \div 2 THEN MaxInt32 - 1 ELSE oldsize * 2
      n2 == IF b.maxnodeincrease > 0 /\ n1 > oldsize + b.maxnodeincrease
            THEN oldsize + b.maxnodeincrease ELSE n1
      n3 == IF n2 > b.maxnodesize /\ b.maxnodesize > 0 THEN b.maxnodesize ELSE n2
  IN  IF oldsize >= b.maxnodesize /\ b.maxnodesize > 0 THEN 0
      ELSE IF primeLte(n3) <= oldsize THEN 0
      ELSE primeLte(n3)

\* outcomes [b, err] with err "errMemory" or "errResize"
noderesize(b) ==
  Bind({resizetarget(b)}, LAMBDA nodesize :
  IF nodesize = 0 THEN {[b |-> b, err |-> "errMemory"]}
  ELSE Bind({[n \in 1..nodesize |->
                IF n <= size(b) THEN [b.nodes[n] EXCEPT !.hash = 0]
                ELSE buddynode(0, 0, -1, 0, 0, n)]}, LAMBDA nodes1 :
       Bind({[b EXCEPT !.nodes = nodes1, !.freepos = 0, !.freenum = 0,
                       !.didresize = TRUE, !.grewfrom = size(b)]}, LAMBDA t :
       Bind(rehash(t, nodesize - 1, 2), LAMBDA u :
       {[b |-> u, err |-> "errResize"]}))))

\* walk of the hash chain that starts at res
RECURSIVE chain(_, _, _, _, _)
chain(b, res, level, low, high) ==
  IF res = 0 THEN 0
  ELSE IF nd(b, res).level = level /\ nd(b, res).low = low /\ nd(b, res).high = high
       THEN res
       ELSE chain(b, nd(b, res).next, level, low, high)

\* writes (level, low, high) in the first free slot and chains it
setnode(b, hash, level, low, high, err) ==
  Bind({[b.nodes EXCEPT ![b.freepos + 1].level = level,
                        ![b.freepos + 1].low = low,
                        ![b.freepos + 1].high = high,
                        ![b.freepos + 1].next = b.nodes[hash + 1].hash]}, LAMBDA n1 :
  {[b |-> [b EXCEPT !.nodes = [n1 EXCEPT ![hash + 1].hash = b.freepos],
                    !.freepos = b.nodes[b.freepos + 1].next,
                    !.freenum = b.freenum - 1],
    res |-> b.freepos, err |-> err]})

\* the nodes under n in the table, n included
RECURSIVE under(_, _, _)
under(nodes, n, fuel) ==
  IF n < 2 \/ n >= Len(nodes) \/ fuel = 0 THEN {}
  ELSE IF nodes[n + 1].low = -1 THEN {}
  ELSE {n} \cup under(nodes, nodes[n + 1].low, fuel - 1)
           \cup under(nodes, nodes[n + 1].high, fuel - 1)

\* a node that the reclamation of b kept in g with another level, low, high
\* or refcou, or with its mark
altered(b, g) ==
  \E n \in 2..(size(g) - 1) :
    /\ g.nodes[n + 1].low # -1
    /\ \/ g.nodes[n + 1].level # b.nodes[n + 1].level % MARKBIT
       \/ g.nodes[n + 1].low # b.nodes[n + 1].low
       \/ g.nodes[n + 1].high # b.nodes[n + 1].high
       \/ g.nodes[n + 1].refcou # b.nodes[n + 1].refcou

\* observation of a reclamation that turned b into g: didfree is set when a
\* node of the reference stack, or a node under one, is a free slot of g,
\* didalter when a node that g keeps is not the node that b had in the slot;
\* gcfree is the number of slots that the reclamation left free, gcsize the
\* size of the table, and triedresize, set by makeroom, tells whether
\* noderesize was called after it
swept(b, g, refstack) ==
  [g EXCEPT !.didfree = @ \/ \E i \in DOMAIN refstack :
                               \E n \in under(b.nodes, refstack[i], b.varnum + 1) :
                                 g.nodes[n + 1].low = -1,
            !.didalter = @ \/ altered(b, g),
            !.gcfree = g.freenum,
            !.gcsize = size(g),
            !.triedresize = FALSE]

\* the part of tables.makenode that runs when the free list is empty
makeroom(b, level, low, high, refstack) ==
  Bind({swept(b, g0, refstack) : g0 \in gbc(b, refstack)}, LAMBDA g :
  IF (g.freenum * 100) \div size(g) <= g.minfreenodes
  THEN Bind(noderesize([g EXCEPT !.triedresize = TRUE]), LAMBDA r :
       IF r.err # "errResize" THEN {[b |-> r.b, res |-> -1, err |-> "errMemory"]}
       ELSE IF r.b.freepos = 0 THEN {[b |-> r.b, res |-> -1, err |-> "errMemory"]}
       ELSE setnode(r.b, nodehash(r.b, level, low, high), level, low, high, "errResize"))
  ELSE IF g.freepos = 0 THEN {[b |-> g, res |-> -1, err |-> "errMemory"]}
  ELSE setnode(g, nodehash(g, level, low, high), level, low, high, "errReset"))

\* tables.makenode: outcomes [b, res, err], err one of "nil", "errReset",
\* "errResize", "errMemory"
tmakenode(b, level, low, high, refstack) ==
  IF low = high THEN {[b |-> b, res |-> low, err |-> "nil"]}
  ELSE Bind({chain(b, nd(b, nodehash(b, level, low, high)).hash, level, low, high)},
            LAMBDA found :
       IF found # 0 THEN {[b |-> b, res |-> found, err |-> "nil"]}
       ELSE IF b.freepos # 0
       THEN setnode(b, nodehash(b, level, low, high), level, low, high, "nil")
       ELSE makeroom(b, level, low, high, refstack))

\* ------------------------------------------------------------------------
\* Operation caches
\* ------------------------------------------------------------------------

data4n(res, a, b, c) == [res |-> res, a |-> a, b |-> b, c |-> c]

data3n(res, a, c) == [res |-> res, a |-> a, c |-> c]

\* data4ncache.reset and data3ncache.reset: only field a is overwritten
reset(bc) == [bc EXCEPT !.table = [k \in 1..Len(bc.table) |-> [bc.table[k] EXCEPT !.a = -1]]]

\* data4ncache.init
init4(sz, ratio) ==
  [table |-> [k \in 1..primeGte(sz) |-> data4n(0, -1, 0, 0)], ratio |-> ratio]

\* data3ncache.init
init3(sz, ratio) ==
  [table |-> [k \in 1..primeGte(sz) |-> data3n(0, -1, 0)], ratio |-> ratio]

\* data4ncache.resize
resize4(bc, sz) ==
  IF bc.ratio > 0
  THEN [bc EXCEPT !.table = [k \in 1..primeGte((sz * bc.ratio) \div 100) |-> data4n(0, -1, 0, 0)]]
  ELSE reset(bc)

\* data3ncache.resize
resize3(bc, sz) ==
  IF bc.ratio > 0
  THEN [bc EXCEPT !.table = [k \in 1..primeGte((sz * bc.ratio) \div 100) |-> data3n(0, -1, 0)]]
  ELSE reset(bc)

cachereset(b) ==
  [b EXCEPT !.applycache = reset(@), !.itecache = reset(@), !.quantcache = reset(@),
            !.appexcache = reset(@), !.replacecache = reset(@)]

cacheresize(b, nodesize) ==
  [b EXCEPT !.applycache = resize4(@, nodesize), !.itecache = resize4(@, nodesize),
            !.quantcache = resize4(@, nodesize), !.appexcache = resize4(@, nodesize),
            !.replacecache = resize3(@, nodesize)]

matchapply(b, left, right) ==
  LET bc    == b.applycache
      entry == bc.table[TRIPLE(left, right, bc.op, Len(bc.table)) + 1]
  IN  IF entry.a = left /\ entry.b = right /\ entry.c = bc.op THEN entry.res ELSE -1

setapply(b, left, right, res) ==
  LET bc == b.applycache
  IN  [b EXCEPT !.applycache.table[TRIPLE(left, right, bc.op, Len(bc.table)) + 1] =
                  data4n(res, left, right, bc.op)]

\* a mutation of matchnot that does not compare the operator code
matchnotAnyOp(b, n) ==
  LET bc    == b.applycache
      entry == bc.table[(n % Len(bc.table)) + 1]
  IN  IF entry.a = n THEN entry.res ELSE -1

matchnot(b, n) ==
  LET bc    == b.applycache
      entry == bc.table[(n % Len(bc.table)) + 1]
  IN  IF entry.a = n /\ entry.c = opnot THEN entry.res ELSE -1

setnot(b, n, res) ==
  [b EXCEPT !.applycache.table[(n % Len(b.applycache.table)) + 1] = data4n(res, n, 0, opnot)]

matchite(b, f, g, h) ==
  LET bc    == b.itecache
      entry == bc.table[TRIPLE(f, g, h, Len(bc.table)) + 1]
  IN  IF entry.a = f /\ entry.b = g /\ entry.c = h THEN entry.res ELSE -1

setite(b, f, g, h, res) ==
  [b EXCEPT !.itecache.table[TRIPLE(f, g, h, Len(b.itecache.table)) + 1] = data4n(res, f, g, h)]

matchquant(b, n, varset) ==
  LET bc    == b.quantcache
      entry == bc.table[PAIR(n, varset, Len(bc.table)) + 1]
  IN  IF entry.a = n /\ entry.b = varset /\ entry.c = bc.id THEN entry.res ELSE -1

setquant(b, n, varset, res) ==
  [b EXCEPT !.quantcache.table[PAIR(n, varset, Len(b.quantcache.table)) + 1] =
              data4n(res, n, varset, b.quantcache.id)]

matchappex(b, left, right) ==
  LET bc    == b.appexcache
      entry == bc.table[TRIPLE(left, right, bc.id, Len(bc.table)) + 1]
  IN  IF entry.a = left /\ entry.b = right /\ entry.c = bc.id THEN entry.res ELSE -1

setappex(b, left, right, res) ==
  LET bc == b.appexcache
  IN  [b EXCEPT !.appexcache.table[TRIPLE(left, right, bc.id, Len(bc.table)) + 1] =
                  data4n(res, left, right, bc.id)]

matchreplace(b, n) ==
  LET bc    == b.replacecache
      entry == bc.table[(n % Len(bc.table)) + 1]
  IN  IF entry.a = n /\ entry.c = bc.id THEN entry.res ELSE -1

setreplace(b, n, res) ==
  [b EXCEPT !.replacecache.table[(n % Len(b.replacecache.table)) + 1] =
              data3n(res, n, b.replacecache.id)]

\* ------------------------------------------------------------------------
\* Engine (type BDD): reference stack, error status, makenode
\* ------------------------------------------------------------------------

\* result of an internal function: the engine after the call and the value
R(b, res) == [b |-> b, res |-> res]

\* a run-time panic of the Go program (index out of range, nil dereference)
panic(b) == [b EXCEPT !.panic = TRUE]

initref(b) == [b EXCEPT !.refstack = <<>>]

pushref(b, n) == [b EXCEPT !.refstack = Append(@, n)]

popref(b, a) == [b EXCEPT !.refstack = SubSeq(@, 1, Len(@) - a)]

\* a seterror whose second branch drops the error it finds
seterrorOnce(b) == [b EXCEPT !.error = ~@]

seterror(b) == [b EXCEPT !.error = TRUE]

level(b, n) == nd(b, n).level

low(b, n) == nd(b, n).low

high(b, n) == nd(b, n).high

\* an id that designates a free slot of the table
stale(b, n) == n >= 2 /\ n < size(b) /\ nd(b, n).low = -1

\* BDD.makenode: the caches are reset or resized when the table reports a
\* reclamation or a resize, and left alone when it reports errMemory
makenode(b, lvl, lo, hi) ==
  Bind(tmakenode(b, lvl, lo, hi, b.refstack), LAMBDA t :
  Bind({[b |-> [t.b EXCEPT !.didneg = @ \/ ((lo < 0 \/ hi < 0) /\ t.res >= 0),
                           !.didstale = @ \/ stale(b, lo) \/ stale(b, hi)],
         res |-> t.res, err |-> t.err]}, LAMBDA r :
  IF r.err = "nil" THEN {R(r.b, r.res)}
  ELSE IF r.err = "errReset" THEN {R(cachereset(r.b), r.res)}
  ELSE IF r.err = "errResize" THEN {R(cacheresize(r.b, size(r.b)), r.res)}
  ELSE {R([r.b EXCEPT !.didoom = TRUE, !.didfull = @ \/ r.b.freepos = 0], r.res)}))

\* ------------------------------------------------------------------------
\* not and apply
\* ------------------------------------------------------------------------

RECURSIVE not(_, _)
not(b, n) ==
  IF n = 0 THEN {R(b, 1)}
  ELSE IF n = 1 THEN {R(b, 0)}
  ELSE IF n < 0 THEN {R(panic(b), -1)}    \* matchnot indexes the table with n % len < 0
  ELSE IF matchnot(b, n) >= 0 THEN {R(b, matchnot(b, n))}
  ELSE Bind(not(b, low(b, n)), LAMBDA l :
       IF l.b.panic THEN {l} ELSE
       Bind(not(pushref(l.b, l.res), high(l.b, n)), LAMBDA h :
       IF h.b.panic THEN {h} ELSE
       Bind(makenode(pushref(h.b, h.res), level(h.b, n), l.res, h.res), LAMBDA mk :
       {R(setnot(popref(mk.b, 2), n, mk.res), mk.res)})))

hit(res) == [hit |-> TRUE, res |-> res]

nohit == [hit |-> FALSE, res |-> -1]

\* the operator-specific short-circuits at the head of apply
applyterm(op, left, right) ==
  CASE op = OPand ->
         IF left = right THEN hit(left)
         ELSE IF left = 0 \/ right = 0 THEN hit(0)
         ELSE IF left = 1 THEN hit(right)
         ELSE IF right = 1 THEN hit(left)
         ELSE nohit
    [] op = OPor ->
         IF left = right THEN hit(left)
         ELSE IF left = 1 \/ right = 1 THEN hit(1)
         ELSE IF left = 0 THEN hit(right)
         ELSE IF right = 0 THEN hit(left)
         ELSE nohit
    [] op = OPxor ->
         IF left = right THEN hit(0)
         ELSE IF left = 0 THEN hit(right)
         ELSE IF right = 0 THEN hit(left)
         ELSE nohit
    [] op = OPnand ->
         IF left = 0 \/ right = 0 THEN hit(1) ELSE nohit
    [] op = OPnor ->
         IF left = 1 \/ right = 1 THEN hit(0) ELSE nohit
    [] op = OPimp ->
         IF left = 0 THEN hit(1)
         ELSE IF left = 1 THEN hit(right)
         ELSE IF right = 1 THEN hit(1)
         ELSE IF left = right THEN hit(1)
         ELSE nohit
    [] op = OPbiimp ->
         IF left = right THEN hit(1)
         ELSE IF left = 1 THEN hit(right)
         ELSE IF right = 1 THEN hit(left)
         ELSE nohit
    [] op = OPdiff ->
         IF left = right THEN hit(0)
         ELSE IF right = 1 THEN hit(0)
         ELSE IF left = 0 THEN hit(right)
         ELSE nohit
    [] op = OPless ->
         IF left = right \/ left = 1 THEN hit(0)
         ELSE IF left = 0 THEN hit(right)
         ELSE nohit
    [] op = OPinvimp ->
         IF right = 0 THEN hit(1)
         ELSE IF right = 1 THEN hit(left)
         ELSE IF left = 1 THEN hit(1)
         ELSE IF left = right THEN hit(1)
         ELSE nohit
    [] OTHER -> nohit

\* The three branches on leftlvl and rightlvl of the Go code are written
\* once: an operand is descended when its level is the smaller one.
RECURSIVE apply(_, _, _)
apply(b, left, right) ==
  IF b.applycache.op \notin OPand..OPinvimp THEN {R(seterror(b), -1)}
  ELSE IF applyterm(b.applycache.op, left, right).hit
       THEN {R(b, applyterm(b.applycache.op, left, right).res)}
  ELSE IF left < 0 \/ right < 0 THEN {R(b, -1)}
  ELSE IF left < 2 /\ right < 2 THEN {R(b, opres[b.applycache.op][left][right])}
  ELSE IF matchapply(b, left, right) >= 0 THEN {R(b, matchapply(b, left, right))}
  ELSE Bind({level(b, left) <= level(b, right)}, LAMBDA dl :
       Bind({level(b, right) <= level(b, left)}, LAMBDA dr :
       Bind(apply(b, IF dl THEN low(b, left) ELSE left,
                     IF dr THEN low(b, right) ELSE right), LAMBDA l :
       Bind(apply(pushref(l.b, l.res), IF dl THEN high(l.b, left) ELSE left,
                                       IF dr THEN high(l.b, right) ELSE right), LAMBDA h :
       Bind(makenode(pushref(h.b, h.res),
                     IF dl THEN level(h.b, left) ELSE level(h.b, right),
                     l.res, h.res), LAMBDA mk :
       {R(setapply(popref(mk.b, 2), left, right, mk.res), mk.res)})))))

\* ------------------------------------------------------------------------
\* ite
\* ------------------------------------------------------------------------

iteLow(b, p, q, r, n) == IF p > q \/ p > r THEN n ELSE low(b, n)

iteHigh(b, p, q, r, n) == IF p > q \/ p > r THEN n ELSE high(b, n)

min3(p, q, r) ==
  IF p <= q THEN (IF p <= r THEN p ELSE r)
  ELSE IF q <= r THEN q ELSE r

RECURSIVE ite(_, _, _, _)
ite(b, f, g, h) ==
  IF f = 1 THEN {R(b, g)}
  ELSE IF f = 0 THEN {R(b, h)}
  ELSE IF g = h THEN {R(b, g)}
  ELSE IF g = 1 /\ h = 0 THEN {R(b, f)}
  ELSE IF g = 0 /\ h = 1 THEN not(b, f)
  ELSE IF f < 0 \/ g < 0 \/ h < 0 THEN {R(seterror(b), -1)}
  ELSE IF matchite(b, f, g, h) >= 0 THEN {R(b, matchite(b, f, g, h))}
  ELSE Bind({level(b, f)}, LAMBDA p :
       Bind({level(b, g)}, LAMBDA q :
       Bind({level(b, h)}, LAMBDA r :
       Bind(ite(b, iteLow(b, p, q, r, f), iteLow(b, q, p, r, g), iteLow(b, r, p, q, h)),
            LAMBDA lo :
       IF lo.b.panic THEN {lo} ELSE
       Bind(ite(pushref(lo.b, lo.res), iteHigh(lo.b, p, q, r, f), iteHigh(lo.b, q, p, r, g),
                iteHigh(lo.b, r, p, q, h)), LAMBDA hi :
       IF hi.b.panic THEN {hi} ELSE
       Bind(makenode(pushref(hi.b, hi.res), min3(p, q, r), lo.res, hi.res), LAMBDA mk :
       {R(setite(popref(mk.b, 2), f, g, h, mk.res), mk.res)}))))))

\* ------------------------------------------------------------------------
\* quant and appquant
\* ------------------------------------------------------------------------

\* loop of quantset2cache over the high spine of the varset cube
RECURSIVE quantspine(_, _)
quantspine(b, i) ==
  IF i <= 1 THEN {b}
  ELSE Bind({[b EXCEPT !.quantset[level(b, i) + 1] = b.quantsetID,
                       !.quantlast = level(b, i)]}, LAMBDA c :
       quantspine(c, high(c, i)))

\* a mutation of quantset2cache that keeps the epoch of the previous call
quantset2cacheSameEpoch(b, n) ==
  IF n < 2 THEN {[b |-> seterror(b), err |-> TRUE]}
  ELSE Bind({[b EXCEPT !.didepoch = TRUE]}, LAMBDA b1 :
       Bind(quantspine(b1, n), LAMBDA b2 :
       {[b |-> b2, err |-> FALSE]}))

\* outcomes [b, err]; err is TRUE when the varset is refused (didepoch
\* records that the call went through)
quantset2cache(b, n) ==
  IF n < 2 THEN {[b |-> seterror(b), err |-> TRUE]}
  ELSE Bind({IF b.quantsetID + 1 = MaxInt32
             THEN [b EXCEPT !.quantset = [k \in 1..b.varnum |-> 0], !.quantsetID = 1,
                            !.didepoch = TRUE]
             ELSE [b EXCEPT !.quantsetID = @ + 1, !.didepoch = TRUE]}, LAMBDA b1 :
       Bind(quantspine(b1, n), LAMBDA b2 :
       {[b |-> b2, err |-> FALSE]}))

RECURSIVE quant(_, _, _)
quant(b, n, varset) ==
  IF n < 2 THEN {R(b, n)}
  ELSE IF level(b, n) > b.quantlast THEN {R(b, n)}
  ELSE IF matchquant(b, n, varset) >= 0 THEN {R(b, matchquant(b, n, varset))}
  ELSE Bind(quant(b, low(b, n), varset), LAMBDA lo :
       Bind(quant(pushref(lo.b, lo.res), high(lo.b, n), varset), LAMBDA hi :
       Bind({pushref(hi.b, hi.res)}, LAMBDA b2 :
       Bind(IF b2.quantset[level(b2, n) + 1] = b2.quantsetID
            THEN apply(b2, lo.res, hi.res)
            ELSE makenode(b2, level(b2, n), lo.res, hi.res), LAMBDA rs :
       {R(setquant(popref(rs.b, 2), n, varset, rs.res), rs.res)}))))

\* the operator-specific short-circuits at the head of appquant; a hit with
\* q = TRUE means that the result is quant(res, varset)
qhit(res) == [hit |-> TRUE, q |-> TRUE, res |-> res]

chit(res) == [hit |-> TRUE, q |-> FALSE, res |-> res]

noqhit == [hit |-> FALSE, q |-> FALSE, res |-> -1]

appquantterm(op, left, right) ==
  CASE op = OPand ->
         IF left = 0 \/ right = 0 THEN chit(0)
         ELSE IF left = right THEN qhit(left)
         ELSE IF left = 1 THEN qhit(right)
         ELSE IF right = 1 THEN qhit(left)
         ELSE noqhit
    [] op = OPor ->
         IF left = 1 \/ right = 1 THEN chit(1)
         ELSE IF left = right THEN qhit(left)
         ELSE IF left = 0 THEN qhit(right)
         ELSE IF right = 0 THEN qhit(left)
         ELSE noqhit
    [] op = OPxor ->
         IF left = right THEN chit(0)
         ELSE IF left = 0 THEN qhit(right)
         ELSE IF right = 0 THEN qhit(left)
         ELSE noqhit
    [] op = OPnand ->
         IF left = 0 \/ right = 0 THEN chit(1) ELSE noqhit
    [] op = OPnor ->
         IF left = 1 \/ right = 1 THEN chit(0) ELSE noqhit
    [] OTHER -> noqhit

\* the branch of appquant taken when no variable is left to quantify
appquantrest(b, left, right) ==
  Bind(apply([b EXCEPT !.applycache.op = b.appexcache.op], left, right), LAMBDA a :
  {R([a.b EXCEPT !.applycache.op = b.applycache.op], a.res)})

RECURSIVE appquant(_, _, _, _)
appquant(b, left, right, varset) ==
  IF b.appexcache.op \notin {OPand, OPor, OPxor, OPnand, OPnor} THEN {R(seterror(b), -1)}
  ELSE IF appquantterm(b.appexcache.op, left, right).hit
       THEN (IF appquantterm(b.appexcache.op, left, right).q
             THEN quant(b, appquantterm(b.appexcache.op, left, right).res, varset)
             ELSE {R(b, appquantterm(b.appexcache.op, left, right).res)})
  ELSE IF left < 0 \/ right < 0 THEN {R(seterror(b), -1)}
  ELSE IF left < 2 /\ right < 2 THEN {R(b, opres[b.appexcache.op][left][right])}
  ELSE IF level(b, left) > b.quantlast /\ level(b, right) > b.quantlast
       THEN appquantrest(b, left, right)
  ELSE IF matchappex(b, left, right) >= 0 THEN {R(b, matchappex(b, left, right))}
  ELSE Bind({level(b, left) <= level(b, right)}, LAMBDA dl :
       Bind({level(b, right) <= level(b, left)}, LAMBDA dr :
       Bind({IF dl THEN level(b, left) ELSE level(b, right)}, LAMBDA lv :
       Bind(appquant(b, IF dl THEN low(b, left) ELSE left,
                        IF dr THEN low(b, right) ELSE right, varset), LAMBDA lo :
       Bind(appquant(pushref(lo.b, lo.res), IF dl THEN high(lo.b, left) ELSE left,
                     IF dr THEN high(lo.b, right) ELSE right, varset), LAMBDA hi :
       Bind({pushref(hi.b, hi.res)}, LAMBDA b2 :
       Bind(IF b2.quantset[lv + 1] = b2.quantsetID
            THEN apply(b2, lo.res, hi.res)
            ELSE makenode(b2, lv, lo.res, hi.res), LAMBDA rs :
       {R(setappex(popref(rs.b, 2), left, right, rs.res), rs.res)})))))))

\* ------------------------------------------------------------------------
\* replace
\* ------------------------------------------------------------------------

\* image of a level by the replacer r: the new level and the changed flag
Replace_(r, lvl) ==
  IF lvl > r.last THEN [image |-> lvl, ok |-> FALSE]
  ELSE [image |-> r.image[lvl + 1], ok |-> TRUE]

\* b.level(low) and b.level(high) are evaluated on every path, in the tests
\* or as arguments of seterror: a negative child is an index out of range
RECURSIVE correctify(_, _, _, _)
correctify(b, lvl, lo, hi) ==
  IF lo < 0 \/ hi < 0 THEN {R(panic(b), -1)}
  ELSE IF lvl < level(b, lo) /\ lvl < level(b, hi) THEN makenode(b, lvl, lo, hi)
  ELSE IF lvl = level(b, lo) \/ lvl = level(b, hi) THEN {R(seterror(b), -1)}
  ELSE Bind({level(b, lo) <= level(b, hi)}, LAMBDA dl :
       Bind({level(b, hi) <= level(b, lo)}, LAMBDA dh :
       Bind(correctify(b, lvl, IF dl THEN low(b, lo) ELSE lo,
                               IF dh THEN low(b, hi) ELSE hi), LAMBDA lf :
       IF lf.b.panic THEN {lf} ELSE
       Bind(correctify(pushref(lf.b, lf.res), lvl, IF dl THEN high(lf.b, lo) ELSE lo,
                       IF dh THEN high(lf.b, hi) ELSE hi), LAMBDA rt :
       IF rt.b.panic THEN {rt} ELSE
       Bind(makenode(pushref(rt.b, rt.res),
                     IF dl THEN level(rt.b, lo) ELSE level(rt.b, hi),
                     lf.res, rt.res), LAMBDA mk :
       {R(popref(mk.b, 2), mk.res)})))))

RECURSIVE replace(_, _, _)
replace(b, n, r) ==
  IF n < 0 THEN {R(panic(b), -1)}                     \* b.level(n) with n = -1
  ELSE IF ~Replace_(r, level(b, n)).ok THEN {R(b, n)}
  ELSE IF matchreplace(b, n) >= 0 THEN {R(b, matchreplace(b, n))}
  ELSE Bind(replace(b, low(b, n), r), LAMBDA lo :
       IF lo.b.panic THEN {lo} ELSE
       Bind(replace(pushref(lo.b, lo.res), high(lo.b, n), r), LAMBDA hi :
       IF hi.b.panic THEN {hi} ELSE
       Bind(correctify(pushref(hi.b, hi.res), Replace_(r, level(hi.b, n)).image,
                       lo.res, hi.res), LAMBDA c :
       IF c.b.panic THEN {c} ELSE
       {R(setreplace(popref(c.b, 2), n, c.res), c.res)})))

\* ------------------------------------------------------------------------
\* Creation of an engine
\* ------------------------------------------------------------------------

\* the options of New, with the defaults of makeconfigs
makeconfigs(varnum) ==
  [varnum |-> varnum, nodesize |-> 2 * varnum + 2, cachesize |-> 0, cacheratio |-> 0,
   maxnodesize |-> 0, maxnodeincrease |-> DEFAULTMAXNODEINC, minfreenodes |-> MINFREENODES]

Nodesize(c, sz) == IF sz >= 2 * c.varnum + 2 THEN [c EXCEPT !.nodesize = sz] ELSE c

Maxnodesize(c, sz) == [c EXCEPT !.maxnodesize = sz]

Maxnodeincrease(c, sz) == [c EXCEPT !.maxnodeincrease = sz]

Minfreenodes(c, ratio) == [c EXCEPT !.minfreenodes = ratio]

Cachesize(c, sz) == [c EXCEPT !.cachesize = sz]

Cacheratio(c, ratio) == [c EXCEPT !.cacheratio = ratio]

\* cacheinit: the five caches and the quantification set
cacheinit(b, c) ==
  LET sz == primeGte(IF c.cachesize # 0 THEN c.cachesize ELSE 10000)
  IN  [b EXCEPT !.applycache   = init4(sz, c.cacheratio) @@ [op |-> 0],
                !.itecache     = init4(sz, c.cacheratio),
                !.quantcache   = init4(sz, c.cacheratio) @@ [id |-> 0],
                !.quantset     = [k \in 1..b.varnum |-> 0],
                !.quantsetID   = 0,
                !.quantlast    = 0,
                !.appexcache   = init4(sz, c.cacheratio) @@ [op |-> 0, id |-> 0],
                !.replacecache = init3(sz, c.cacheratio) @@ [id |-> 0]]

\* loop of New that creates and pins the two literals of each variable
RECURSIVE newvars(_, _)
newvars(b, k) ==
  IF k >= b.varnum THEN {b}
  ELSE Bind(tmakenode(b, k, 0, 1, <<>>), LAMBDA m0 :
       Bind({[m0.b EXCEPT !.nodes[m0.res + 1].refcou = MAXREFCOUNT]}, LAMBDA p0 :
       Bind(tmakenode(p0, k, 1, 0, <<>>), LAMBDA m1 :
       Bind({[m1.b EXCEPT !.nodes[m1.res + 1].refcou = MAXREFCOUNT,
                          !.varset = Append(@, <<m0.res, m1.res>>)]}, LAMBDA p1 :
       newvars(p1, k + 1)))))

\* the table and the engine before the variables are created
newtables(c, nodesize) ==
  [varnum |-> c.varnum, varset |-> <<>>, refstack |-> <<>>, error |-> FALSE,
   panic |-> FALSE,
   nodes |-> [k \in 1..nodesize |->
                IF k <= 2 THEN buddynode(MAXREFCOUNT, c.varnum, k - 1, k - 1, 0, k)
                ELSE buddynode(0, 0, -1, 0, 0, IF k = nodesize THEN 0 ELSE k)],
   freenum |-> nodesize - 2, freepos |-> 2,
   minfreenodes |-> c.minfreenodes, maxnodeincrease |-> c.maxnodeincrease,
   maxnodesize |-> 0,
   didgc |-> FALSE, didresize |-> FALSE, didoom |-> FALSE, didfull |-> FALSE,
   didneg |-> FALSE, didfree |-> FALSE, didstale |-> FALSE, didalter |-> FALSE,
   grewfrom |-> 0, gcfree |-> 0, gcsize |-> 0, triedresize |-> FALSE,
   didepoch |-> FALSE,
   applycache |-> <<>>, itecache |-> <<>>, quantcache |-> <<>>,
   quantset |-> <<>>, quantsetID |-> 0, quantlast |-> 0,
   appexcache |-> <<>>, replacecache |-> <<>>]

\* New for a valid number of variables: maxnodesize is not copied from the
\* options to the table, which keeps the zero value of its field
New(c) ==
  Bind(newvars(newtables(c, primeGte(c.nodesize)), 0), LAMBDA b :
  {cacheinit(b, c)})

\* ------------------------------------------------------------------------
\* External handles (type Node = *int) and the public operations
\* ------------------------------------------------------------------------

\* a Node is a pointer to an int: Nil or the one-element sequence <<n>>
Nil == <<>>

inode(n) == <<n>>

bddone == inode(1)

bddzero == inode(0)

\* result of a public operation: engine, returned Node, and whether retnode
\* registered a finalizer on the returned Node
P(b, node, fin) == [b |-> b, node |-> node, fin |-> fin]

\* a mutation of retnode that registers a finalizer on every Node, also when
\* the count is saturated and is not incremented
retnodeAlways(b, n) ==
  IF n < 0 \/ n > size(b) THEN P(b, Nil, FALSE)
  ELSE IF n = 0 THEN P(b, bddzero, FALSE)
  ELSE IF n = 1 THEN P(b, bddone, FALSE)
  ELSE IF n = size(b) THEN P(panic(b), Nil, FALSE)
  ELSE IF nd(b, n).refcou < MAXREFCOUNT
       THEN P([b EXCEPT !.nodes[n + 1].refcou = @ + 1], inode(n), TRUE)
       ELSE P(b, inode(n), TRUE)

retnode(b, n) ==
  IF n < 0 \/ n > size(b) THEN P(b, Nil, FALSE)
  ELSE IF n = 0 THEN P(b, bddzero, FALSE)
  ELSE IF n = 1 THEN P(b, bddone, FALSE)
  ELSE IF n = size(b) THEN P(panic(b), Nil, FALSE)     \* b.nodes[n] out of range
  ELSE IF nd(b, n).refcou < MAXREFCOUNT
       THEN P([b EXCEPT !.nodes[n + 1].refcou = @ + 1], inode(n), TRUE)
       ELSE P(b, inode(n), FALSE)

\* the finalizer registered by retnode
nodefinalizer(b, n) == [b EXCEPT !.nodes[n + 1].refcou = @ - 1]

\* TRUE when the pointer is refused; the engine is then in the error state
checkptr(b, n) ==
  IF n = Nil THEN [b |-> seterror(b), err |-> TRUE]
  ELSE IF n[1] < 0 \/ n[1] >= size(b) THEN [b |-> seterror(b), err |-> TRUE]
  ELSE IF n[1] >= 2 /\ low(b, n[1]) = -1 THEN [b |-> seterror(b), err |-> TRUE]
  ELSE [b |-> b, err |-> FALSE]

\* return b.seterror("...", *n) after a failed checkptr(n): the argument *n is
\* evaluated before the call, which panics for a nil pointer
badoperand(b, n) ==
  IF n = Nil THEN P(panic(b), Nil, FALSE) ELSE P(seterror(b), Nil, FALSE)

\* closes a public operation whose recursion returned r
finish(r, pops) ==
  IF r.b.panic THEN P(r.b, Nil, FALSE) ELSE retnode(popref(r.b, pops), r.res)

Ithvar(b, i) ==
  IF i < 0 \/ i >= b.varnum THEN P(seterror(b), Nil, FALSE)
  ELSE P(b, inode(b.varset[i + 1][1]), FALSE)

NIthvar(b, i) ==
  IF i < 0 \/ i >= b.varnum THEN P(seterror(b), Nil, FALSE)
  ELSE P(b, inode(b.varset[i + 1][2]), FALSE)

Not(b, n) ==
  IF checkptr(b, n).err THEN {badoperand(checkptr(b, n).b, n)}
  ELSE Bind(not(pushref(initref(b), n[1]), n[1]), LAMBDA r : {finish(r, 1)})

Apply(b, n1, n2, op) ==
  IF checkptr(b, n1).err THEN {badoperand(checkptr(b, n1).b, n1)}
  ELSE IF checkptr(b, n2).err THEN {badoperand(checkptr(b, n2).b, n2)}
  ELSE Bind({pushref(pushref(initref([b EXCEPT !.applycache.op = op]), n1[1]), n2[1])},
            LAMBDA b1 :
       Bind(apply(b1, n1[1], n2[1]), LAMBDA r : {finish(r, 2)}))

Ite(b, f, g, h) ==
  IF checkptr(b, f).err THEN {badoperand(checkptr(b, f).b, f)}
  ELSE IF checkptr(b, g).err THEN {badoperand(checkptr(b, g).b, g)}
  ELSE IF checkptr(b, h).err THEN {badoperand(checkptr(b, h).b, h)}
  ELSE Bind({pushref(pushref(pushref(initref(b), f[1]), g[1]), h[1])}, LAMBDA b1 :
       Bind(ite(b1, f[1], g[1], h[1]), LAMBDA r : {finish(r, 3)}))

Exist(b, n, varset) ==
  IF checkptr(b, n).err THEN {badoperand(checkptr(b, n).b, n)}
  ELSE IF checkptr(b, varset).err THEN {badoperand(checkptr(b, varset).b, varset)}
  ELSE Bind(quantset2cache(b, varset[1]), LAMBDA q :
       IF q.err THEN {P(q.b, Nil, FALSE)}
       ELSE IF varset[1] < 2 THEN {P(q.b, n, FALSE)}
       ELSE Bind({pushref(pushref(initref(
                    [q.b EXCEPT !.quantcache.id = cacheidEXIST, !.applycache.op = OPor]),
                    n[1]), varset[1])}, LAMBDA b1 :
            Bind(quant(b1, n[1], varset[1]), LAMBDA r : {finish(r, 2)})))

\* the part of AppEx that follows the checks of the operator and the operands
appex(b, n1, n2, op, varset) ==
  Bind(quantset2cache(b, varset[1]), LAMBDA q :
  IF q.err THEN {P(q.b, Nil, FALSE)}
  ELSE Bind({pushref(pushref(pushref(initref(
               [q.b EXCEPT !.applycache.op = OPor, !.appexcache.op = op,
                           !.appexcache.id = varset[1] * 4 + op,
                           !.quantcache.id = (varset[1] * 4 + op) * 8 + cacheidAPPEX]),
               n1[1]), n2[1]), varset[1])}, LAMBDA b1 :
       Bind(appquant(b1, n1[1], n2[1], varset[1]), LAMBDA r : {finish(r, 3)})))

\* AppEx with the test of the operator moved by one: nor is let through
AppExNor(b, n1, n2, op, varset) ==
  IF op > 4 THEN {P(seterror(b), Nil, FALSE)}
  ELSE IF checkptr(b, varset).err THEN {badoperand(checkptr(b, varset).b, varset)}
  ELSE IF varset[1] < 2 THEN Apply(b, n1, n2, op)
  ELSE IF checkptr(b, n1).err THEN {badoperand(checkptr(b, n1).b, n1)}
  ELSE IF checkptr(b, n2).err THEN {badoperand(checkptr(b, n2).b, n2)}
  ELSE appex(b, n1, n2, op, varset)

AppEx(b, n1, n2, op, varset) ==
  IF op > 3 THEN {P(seterror(b), Nil, FALSE)}
  ELSE IF checkptr(b, varset).err THEN {badoperand(checkptr(b, varset).b, varset)}
  ELSE IF varset[1] < 2 THEN Apply(b, n1, n2, op)
  ELSE IF checkptr(b, n1).err THEN {badoperand(checkptr(b, n1).b, n1)}
  ELSE IF checkptr(b, n2).err THEN {badoperand(checkptr(b, n2).b, n2)}
  ELSE appex(b, n1, n2, op, varset)

AndExist(b, varset, n1, n2) == AppEx(b, n1, n2, OPand, varset)

\* Replace: retnode is called before the operand is popped
Replace(b, n, r) ==
  IF checkptr(b, n).err THEN {badoperand(checkptr(b, n).b, n)}
  ELSE Bind(replace([pushref(initref(b), n[1]) EXCEPT !.replacecache.id = r.id], n[1], r),
            LAMBDA x :
       IF x.b.panic THEN {P(x.b, Nil, FALSE)}
       ELSE Bind({retnode(x.b, x.res)}, LAMBDA t :
            IF t.b.panic THEN {t} ELSE {P(popref(t.b, 1), t.node, t.fin)}))

\* Makeset: the Nodes returned by the successive Apply are dropped, except the
\* last one; drops is the sequence of the dropped Nodes that carry a finalizer
RECURSIVE makesetloop(_, _, _, _, _, _)
makesetloop(b, varset, i, res, resfin, drops) ==
  IF i > Len(varset) THEN {[b |-> b, node |-> res, fin |-> resfin, drops |-> drops]}
  ELSE Bind({Ithvar(b, varset[i])}, LAMBDA v :
       Bind(Apply(v.b, res, v.node, OPand), LAMBDA tmp :
       Bind({IF resfin THEN Append(drops, res[1]) ELSE drops}, LAMBDA d1 :
       IF tmp.b.panic
       THEN {[b |-> tmp.b, node |-> Nil, fin |-> FALSE, drops |-> d1]}
       ELSE IF tmp.b.error
       THEN {[b |-> tmp.b, node |-> bddzero, fin |-> FALSE,
              drops |-> IF tmp.fin THEN Append(d1, tmp.node[1]) ELSE d1]}
       ELSE makesetloop(tmp.b, varset, i + 1, tmp.node, tmp.fin, d1))))

Makeset(b, varset) == makesetloop(b, varset, 1, bddone, FALSE, <<>>)

\* ------------------------------------------------------------------------
\* Denotation of a node: the Boolean function it represents
\* ------------------------------------------------------------------------

\* (the reference the results of the operations are compared to: the function
\* is read off the level, low and high fields of the table)
\* an assignment is the set of the variables that are true
Assignments(b) == SUBSET (0..(b.varnum - 1))

\* value of node n under assignment a: 0, 1, or -1 when the walk reaches a
\* negative id, a free slot, or does not end within fuel steps
RECURSIVE Eval(_, _, _, _)
Eval(b, n, a, fuel) ==
  IF n < 0 \/ n >= size(b) \/ fuel = 0 THEN -1
  ELSE IF n < 2 THEN n
  ELSE IF low(b, n) = -1 THEN -1
  ELSE IF (level(b, n) % MARKBIT) \in a THEN Eval(b, high(b, n), a, fuel - 1)
  ELSE Eval(b, low(b, n), a, fuel - 1)

\* the set of assignments that satisfy n
Sem(b, n) == {a \in Assignments(b) : Eval(b, n, a, size(b)) = 1}

\* n denotes a Boolean function: every walk ends on a constant
WellFormed(b, n) == \A a \in Assignments(b) : Eval(b, n, a, size(b)) \in {0, 1}

\* the function of a Node; ok is FALSE when the Node denotes no function
NoSem == [ok |-> FALSE, f |-> {}]

SemOf(b, node) ==
  IF node = Nil THEN NoSem
  ELSE IF ~WellFormed(b, node[1]) THEN NoSem
  ELSE [ok |-> TRUE, f |-> Sem(b, node[1])]

\* truth-table semantics of the ten binary operators
OpSem(b, op, fl, fr) ==
  {a \in Assignments(b) :
     opres[op][IF a \in fl THEN 1 ELSE 0][IF a \in fr THEN 1 ELSE 0] = 1}

\* existential quantification of f over the variables vs
ExistSem(b, f, vs) == {a \in Assignments(b) : \E c \in f : (c \ vs) = (a \ vs)}

\* the variables of a varset cube: the levels on its high spine
RECURSIVE Scan(_, _, _)
Scan(b, n, fuel) ==
  IF n < 2 \/ fuel = 0 THEN {}
  ELSE {level(b, n)} \cup Scan(b, high(b, n), fuel - 1)

\* ------------------------------------------------------------------------
\* The program: an engine, the Nodes held by its user, the last call
\* ------------------------------------------------------------------------

VARIABLES
  bdd,      \* the engine (type BDD)
  handles,  \* bag of the live Nodes <<id, fin>> on non-pinned nodes; fin is
            \* TRUE when the Node carries a finalizer
  last,     \* the last call: its name, arguments, result
  nops,     \* number of public operations counted so far
  twin      \* a second engine given the same calls (SpecTwin only)

vars == <<bdd, handles, last, nops, twin>>

\* the Nodes of the variables, as Ithvar returns them
variables(b) == {b.varset[i][1] : i \in 1..b.varnum}

\* Nodes the user can pass: the constants, the variables and the Nodes that
\* earlier calls returned and that they still hold
Valid(b, hs) ==
  {bddzero, bddone} \cup {inode(n) : n \in variables(b)}
    \cup {inode(h[1]) : h \in BagToSet(hs)}

\* wrong Nodes: nil, an id outside the table, the id of a free slot
Bad(b) ==
  {Nil, inode(size(b))} \cup (IF b.freepos # 0 THEN {inode(b.freepos)} ELSE {})

\* pairs and triples of operands with at most one wrong Node
Pairs(b, hs) ==
  (Valid(b, hs) \X Valid(b, hs)) \cup (Bad(b) \X {bddone}) \cup ({bddone} \X Bad(b))

Triples(b, hs) ==
  (Valid(b, hs) \X Valid(b, hs) \X Valid(b, hs))
    \cup (Bad(b) \X {bddone} \X {bddzero}) \cup ({bddone} \X Bad(b) \X {bddzero})
    \cup ({bddone} \X {bddzero} \X Bad(b))

\* the engine at the start of a public call
start(b) ==
  [b EXCEPT !.didgc = FALSE, !.didresize = FALSE, !.didoom = FALSE, !.didfull = FALSE,
            !.didneg = FALSE, !.didfree = FALSE, !.didstale = FALSE,
            !.didalter = FALSE, !.grewfrom = 0, !.gcfree = 0, !.gcsize = 0,
            !.triedresize = FALSE, !.didepoch = FALSE]

\* the bag of live Nodes after a call that returned node
keep(b, hs, node, fin) ==
  IF node = Nil THEN hs
  ELSE IF node[1] < 2 \/ node[1] \in variables(b) THEN hs
  ELSE hs (+) SetToBag({<<node[1], fin>>})

RECURSIVE keepall(_, _, _)
keepall(b, hs, drops) ==
  IF drops = <<>> THEN hs
  ELSE keepall(b, keep(b, hs, inode(Head(drops)), TRUE), Tail(drops))

NoTwin == <<>>

\* what is recorded of a call: its arguments, the functions they denote and
\* the error status when it starts, the slice given to Makeset and the Node
\* that Makeset returned for it, the Node the call returns, and the Node
\* returned by the computation it is compared to
call(kind, args, code, vs, set, p, alt) ==
  [kind |-> kind, args |-> args, code |-> code, vs |-> vs, set |-> set,
   pre |-> [i \in 1..Len(args) |-> SemOf(bdd, args[i])],
   bad |-> \E i \in 1..Len(args) : checkptr(bdd, args[i]).err,
   preerr |-> bdd.error, node |-> p.node, fin |-> p.fin, alt |-> alt, out |-> <<>>]

CanCall == ~bdd.panic /\ nops < MaxOps /\ BagCardinality(handles) < MaxHandles

Returns(kind, args, code, p) ==
  /\ bdd' = p.b
  /\ handles' = keep(bdd, handles, p.node, p.fin)
  /\ last' = call(kind, args, code, {}, Nil, p, Nil)
  /\ nops' = nops + 1
  /\ twin' = twin

DoIthvar ==
  /\ CanCall
  /\ \E b0 \in {start(bdd)}, i \in -1..bdd.varnum :
       Returns("Ithvar", <<>>, i, Ithvar(b0, i))

DoNot ==
  /\ CanCall
  /\ \E b0 \in {start(bdd)}, n \in Valid(bdd, handles) \cup Bad(bdd) :
       \E p \in Not(b0, n) : Returns("Not", <<n>>, opnot, p)

DoApply ==
  /\ CanCall
  /\ \E b0 \in {start(bdd)}, a \in Pairs(bdd, handles), op \in OPand..OPinvimp :
       \E p \in Apply(b0, a[1], a[2], op) : Returns("Apply", <<a[1], a[2]>>, op, p)

DoIte ==
  /\ CanCall
  /\ \E b0 \in {start(bdd)}, a \in Triples(bdd, handles) :
       \E p \in Ite(b0, a[1], a[2], a[3]) : Returns("Ite", <<a[1], a[2], a[3]>>, 0, p)

\* the slices of variables passed to Makeset, in increasing order
VarLists ==
  {<<>>} \cup {<<i>> : i \in 0..(Varnum - 1)}
    \cup {p \in (0..(Varnum - 1)) \X (0..(Varnum - 1)) : p[1] < p[2]}

\* slices that are not sorted, name a variable twice, or name no variable
OddLists == {<<1, 0>>, <<0, 0>>, <<Varnum>>}

Range(f) == {f[i] : i \in DOMAIN f}

\* the Nodes held after Makeset returned m, then another call returned p
keepset(m, p) ==
  keep(bdd, keep(bdd, keepall(bdd, handles, m.drops), m.node, m.fin), p.node, p.fin)

DoMakeset ==
  /\ CanCall
  /\ \E b0 \in {start(bdd)}, vl \in VarLists \cup OddLists :
       \E m \in Makeset(b0, vl) :
         /\ bdd' = m.b
         /\ handles' = keep(bdd, keepall(bdd, handles, m.drops), m.node, m.fin)
         /\ last' = call("Makeset", <<>>, 0, Range(vl), m.node, m, Nil)
         /\ nops' = nops + 1
         /\ twin' = twin

\* b.Exist(n, b.Makeset(vl))
DoExist ==
  /\ CanCall
  /\ \E b0 \in {start(bdd)}, n \in Valid(bdd, handles) \cup Bad(bdd), vl \in VarLists :
       \E m \in Makeset(b0, vl) : \E p \in Exist(m.b, n, m.node) :
         /\ bdd' = p.b
         /\ handles' = keepset(m, p)
         /\ last' = call("Exist", <<n>>, 0, Range(vl), m.node, p, Nil)
         /\ nops' = nops + 1
         /\ twin' = twin

\* b.AppEx(n1, n2, op, b.Makeset(vl)) on the variables and the Nodes held
DoAppEx ==
  /\ CanCall
  /\ \E b0 \in {start(bdd)}, n1, n2 \in Valid(bdd, handles) \ {bddzero, bddone},
        op \in OPand..OPinvimp, vl \in VarLists :
       \E m \in Makeset(b0, vl) : \E p \in AppEx(m.b, n1, n2, op, m.node) :
         /\ bdd' = p.b
         /\ handles' = keepset(m, p)
         /\ last' = call("AppEx", <<n1, n2>>, op, Range(vl), m.node, p, Nil)
         /\ nops' = nops + 1
         /\ twin' = twin

\* b.Exist(b.And(n1, n2), v): Nil as soon as one of the two calls fails
ExistAnd(b, n1, n2, v) ==
  Bind(Apply(b, n1, n2, OPand), LAMBDA t :
  IF t.b.panic \/ t.node = Nil THEN {P(t.b, Nil, FALSE)}
  ELSE Bind(Exist(t.b, t.node, v), LAMBDA e :
       {[b |-> e.b, node |-> e.node, fin |-> e.fin, mid |-> t]}))

\* the two computations of milner in one engine, in either order:
\* b.AndExist(v, n1, n2) and b.Exist(b.And(n1, n2), v) with v = b.Makeset(vl)
DoAndExist ==
  /\ CanCall
  /\ \E b0 \in {start(bdd)}, n1, n2 \in Valid(bdd, handles), vl \in VarLists :
       \E m \in Makeset(b0, vl) :
         \/ \E p \in AndExist(m.b, m.node, n1, n2) :
              \E e \in IF p.b.panic THEN {} ELSE ExistAnd(p.b, n1, n2, m.node) :
                /\ bdd' = e.b
                /\ handles' = keepset(m, p)
                /\ last' = call("AndExist", <<n1, n2>>, OPand, Range(vl), m.node, p, e.node)
         \/ \E e \in ExistAnd(m.b, n1, n2, m.node) :
              \E p \in IF e.b.panic THEN {} ELSE AndExist(e.b, m.node, n1, n2) :
                /\ bdd' = p.b
                /\ handles' = keepset(m, p)
                /\ last' = call("AndExist", <<n1, n2>>, OPand, Range(vl), m.node, p, e.node)
  /\ nops' = nops + 1
  /\ twin' = twin

\* a Node held by the user becomes unreachable and its finalizer, if it has
\* one, runs
Finalize ==
  /\ ~bdd.panic
  /\ \E h \in BagToSet(handles) :
       /\ bdd' = IF h[2] THEN nodefinalizer(bdd, h[1]) ELSE bdd
       /\ handles' = handles (-) SetToBag({h})
       /\ last' = [kind |-> "Finalize", args |-> <<inode(h[1])>>, code |-> 0,
                   vs |-> {}, set |-> Nil, pre |-> <<>>, bad |-> FALSE,
                   preerr |-> bdd.error,
                   node |-> Nil, fin |-> h[2], alt |-> Nil, out |-> <<>>]
       /\ nops' = nops
       /\ twin' = twin

\* the options passed to New
Configs ==
  {Maxnodeincrease(Cachesize(makeconfigs(Varnum), 1), inc) :
     inc \in {DEFAULTMAXNODEINC, 1}}

NoCall ==
  [kind |-> "New", args |-> <<>>, code |-> 0, vs |-> {}, set |-> Nil, pre |-> <<>>,
   bad |-> FALSE, preerr |-> FALSE, node |-> Nil, fin |-> FALSE, alt |-> Nil, out |-> <<>>]

Init ==
  /\ \E c \in Configs : bdd \in New(c)
  /\ handles = EmptyBag
  /\ last = NoCall
  /\ nops = 0
  /\ twin = NoTwin

Next ==
  \/ DoIthvar
  \/ DoNot
  \/ DoApply
  \/ DoIte
  \/ Finalize

Spec == Init /\ [][Next]_vars

\* quantification: the calls of Makeset, Exist, AppEx and AndExist, on the
\* constants, the variables and the results of earlier calls (AppEx with an
\* empty set of variables is Apply)
NextQuant ==
  \/ DoMakeset
  \/ DoExist
  \/ DoAppEx
  \/ DoAndExist
  \/ Finalize

SpecQuant == Init /\ [][NextQuant]_vars

\* the Node of variable i
xv(b, i) == inode(b.varset[i + 1][1])

\* deep recursions in a table that cannot grow: an engine of DeepVarnum
\* variables created with Maxnodeincrease(1); the calls are And, Xor and Not
\* on the variables and the Nodes held
DeepConfig == Maxnodeincrease(Cachesize(makeconfigs(DeepVarnum), 1), 1)

InitDeep ==
  /\ bdd \in New(DeepConfig)
  /\ handles = EmptyBag
  /\ last = NoCall
  /\ nops = 0
  /\ twin = NoTwin

CanCallDeep ==
  ~bdd.panic /\ nops < DeepOps /\ BagCardinality(handles) < MaxHandles

Operands(b, hs) == Valid(b, hs) \ {bddzero, bddone}

DeepApply ==
  /\ CanCallDeep
  /\ \E b0 \in {start(bdd)}, n1, n2 \in Operands(bdd, handles), op \in {OPand, OPxor} :
       \E p \in Apply(b0, n1, n2, op) : Returns("Apply", <<n1, n2>>, op, p)

DeepNot ==
  /\ CanCallDeep
  /\ \E b0 \in {start(bdd)}, n \in Operands(bdd, handles) :
       \E p \in Not(b0, n) : Returns("Not", <<n>>, opnot, p)

NextDeep ==
  \/ DeepApply
  \/ DeepNot
  \/ Finalize

SpecDeep == InitDeep /\ [][NextDeep]_vars

\* the relational product in a table that cannot grow: the two computations
\* of milner, AndExist(v, n1, n2) and Exist(And(n1, n2), v), on the engine of
\* SpecDeep
DeepVarLists == {<<1>>, <<0, 1>>}

DeepAndExist ==
  /\ CanCallDeep
  /\ \E b0 \in {start(bdd)}, n1, n2 \in Operands(bdd, handles), vl \in DeepVarLists :
       \E m \in Makeset(b0, vl) : \E p \in AndExist(m.b, m.node, n1, n2) :
         \E e \in IF p.b.panic THEN {} ELSE ExistAnd(p.b, n1, n2, m.node) :
           /\ bdd' = e.b
           /\ handles' = keepset(m, p)
           /\ last' = call("AndExist", <<n1, n2>>, OPand, Range(vl), m.node, p, e.node)
           /\ nops' = nops + 1
           /\ twin' = twin

DeepXor ==
  /\ CanCallDeep
  /\ \E b0 \in {start(bdd)}, n1, n2 \in Operands(bdd, handles) :
       \E p \in Apply(b0, n1, n2, OPxor) : Returns("Apply", <<n1, n2>>, OPxor, p)

NextRelProd ==
  \/ DeepXor
  \/ DeepAndExist
  \/ Finalize

SpecRelProd == InitDeep /\ [][NextRelProd]_vars

\* quantification in a table that cannot grow: an engine of ExistVarnum
\* variables created with Nodesize(ExistNodesize) and Maxnodeincrease(1); the
\* calls are Ite on three variables, And of a variable and a Node, and Exist
\* over the variable ExistVar
ExistConfig ==
  Maxnodeincrease(Cachesize(Nodesize(makeconfigs(ExistVarnum), ExistNodesize), 1), 1)

InitExist ==
  /\ bdd \in New(ExistConfig)
  /\ handles = EmptyBag
  /\ last = NoCall
  /\ nops = 0
  /\ twin = NoTwin

CanCallExist ==
  ~bdd.panic /\ nops < ExistOps /\ BagCardinality(handles) < MaxHandles

ExistIte ==
  /\ CanCallExist
  /\ \E b0 \in {start(bdd)}, t \in {<<1, 2, 3>>, <<0, 1, 2>>} :
       \E p \in Ite(b0, xv(bdd, t[1]), xv(bdd, t[2]), xv(bdd, t[3])) :
         Returns("Ite", <<xv(bdd, t[1]), xv(bdd, t[2]), xv(bdd, t[3])>>, 0, p)

ExistAndVar ==
  /\ CanCallExist
  /\ \E b0 \in {start(bdd)}, i \in 0..(ExistVarnum - 1), n \in Operands(bdd, handles) :
       \E p \in Apply(b0, xv(bdd, i), n, OPand) :
         Returns("Apply", <<xv(bdd, i), n>>, OPand, p)

ExistOver ==
  /\ CanCallExist
  /\ \E b0 \in {start(bdd)}, n \in Operands(bdd, handles) :
       \E m \in Makeset(b0, <<ExistVar>>) : \E p \in Exist(m.b, n, m.node) :
         /\ bdd' = p.b
         /\ handles' = keepset(m, p)
         /\ last' = call("Exist", <<n>>, 0, {ExistVar}, m.node, p, Nil)
         /\ nops' = nops + 1
         /\ twin' = twin

NextExist ==
  \/ ExistIte
  \/ ExistAndVar
  \/ ExistOver
  \/ Finalize

SpecExist == InitExist /\ [][NextExist]_vars

\* two engines given the same calls, as the two runs of milner in
\* TestMilnerSlow: bdd has the smallest table and the smallest caches, twin.b
\* is created with Nodesize, Cachesize and Cacheratio; twin.held lists the
\* results that the user holds, each as the Node of bdd, the Node of twin.b
\* and their finalizer flags
TwinConfigs ==
  {Maxnodeincrease(Cachesize(makeconfigs(DeepVarnum), 1), inc) :
     inc \in {DEFAULTMAXNODEINC, 1}}

InitTwin ==
  /\ \E c \in TwinConfigs :
       /\ bdd \in New(c)
       /\ \E t \in New(Cacheratio(Cachesize(Nodesize(c, TwinNodesize), 2), 25)) :
            twin = [b |-> t, held |-> <<>>]
  /\ handles = EmptyBag
  /\ last = NoCall
  /\ nops = 0

\* the operands of a call on two engines: a constant, a variable, or a result
\* held
Terms ==
  {<<"const", 0>>, <<"const", 1>>} \cup {<<"var", i>> : i \in 0..(DeepVarnum - 1)}
    \cup {<<"held", k>> : k \in 1..Len(twin.held)}

\* the Node of term t in the first engine (side 1) and in the second (side 2)
NodeOf(t, side) ==
  IF t[1] = "const" THEN inode(t[2])
  ELSE IF t[1] = "var"
       THEN inode((IF side = 1 THEN bdd ELSE twin.b).varset[t[2] + 1][1])
       ELSE inode(twin.held[t[2]][side])

CanCallTwin == ~bdd.panic /\ ~twin.b.panic /\ nops < DeepOps /\ Len(twin.held) < MaxHandles

\* the state after a call returned p in bdd and q in twin.b
ReturnsTwin(kind, args, code, p, q) ==
  /\ bdd' = p.b
  /\ twin' = [b |-> q.b,
              held |-> IF p.node # Nil /\ q.node # Nil /\ p.node[1] >= 2
                       THEN Append(twin.held, <<p.node[1], q.node[1], p.fin, q.fin>>)
                       ELSE twin.held]
  /\ last' = call(kind, args, code, {}, Nil, p, q.node)
  /\ nops' = nops + 1
  /\ handles' = handles

TwinApply ==
  /\ CanCallTwin
  /\ \E t1, t2 \in Terms \ {<<"const", 0>>, <<"const", 1>>}, op \in {OPand, OPxor} :
       \E p \in Apply(start(bdd), NodeOf(t1, 1), NodeOf(t2, 1), op) :
         \E q \in Apply(start(twin.b), NodeOf(t1, 2), NodeOf(t2, 2), op) :
           ReturnsTwin("Apply", <<NodeOf(t1, 1), NodeOf(t2, 1)>>, op, p, q)

TwinNot ==
  /\ CanCallTwin
  /\ \E t \in Terms \ {<<"const", 0>>, <<"const", 1>>} :
       \E p \in Not(start(bdd), NodeOf(t, 1)) :
         \E q \in Not(start(twin.b), NodeOf(t, 2)) :
           ReturnsTwin("Not", <<NodeOf(t, 1)>>, opnot, p, q)

\* the user drops a result: its two Nodes become unreachable and their
\* finalizers run
TwinDrop ==
  /\ ~bdd.panic /\ ~twin.b.panic
  /\ \E k \in 1..Len(twin.held) :
       /\ bdd' = IF twin.held[k][3] THEN nodefinalizer(bdd, twin.held[k][1]) ELSE bdd
       /\ twin' = [b |-> IF twin.held[k][4] THEN nodefinalizer(twin.b, twin.held[k][2])
                         ELSE twin.b,
                   held |-> SubSeq(twin.held, 1, k - 1)
                              \o SubSeq(twin.held, k + 1, Len(twin.held))]
       /\ last' = [kind |-> "Finalize", args |-> <<inode(twin.held[k][1])>>, code |-> 0,
                   vs |-> {}, set |-> Nil, pre |-> <<>>, bad |-> FALSE,
                   preerr |-> bdd.error,
                   node |-> Nil, fin |-> twin.held[k][3], alt |-> Nil, out |-> <<>>]
       /\ nops' = nops
       /\ handles' = handles

NextTwin ==
  \/ TwinApply
  \/ TwinNot
  \/ TwinDrop

SpecTwin == InitTwin /\ [][NextTwin]_vars

\* reference counts: the user asks again and again for And(x0, x1), which
\* returns a new Node on the same node each time, sometimes for Or(x0, x1),
\* which needs a new slot, and drops Nodes; the calls are not counted, the
\* bound is on the Nodes held
\* number of Nodes held on node n
Held(hs, n) == CopiesIn(<<n, TRUE>>, hs) + CopiesIn(<<n, FALSE>>, hs)

RefReturns(op, p) ==
  /\ bdd' = p.b
  /\ handles' = keep(bdd, handles, p.node, p.fin)
  /\ last' = call("Apply", <<xv(bdd, 0), xv(bdd, 1)>>, op, {}, Nil, p, Nil)
  /\ nops' = nops
  /\ twin' = twin

RefAnd ==
  /\ ~bdd.panic /\ BagCardinality(handles) < RefHandles
  /\ \E p \in Apply(start(bdd), xv(bdd, 0), xv(bdd, 1), OPand) : RefReturns(OPand, p)

\* the result of Or is not kept: its finalizer runs before the next call
RefOr ==
  /\ ~bdd.panic
  /\ \E p \in Apply(start(bdd), xv(bdd, 0), xv(bdd, 1), OPor) :
       /\ bdd' = IF p.fin THEN nodefinalizer(p.b, p.node[1]) ELSE p.b
       /\ handles' = handles
       /\ last' = call("Apply", <<xv(bdd, 0), xv(bdd, 1)>>, OPor, {}, Nil, p, Nil)
       /\ nops' = nops
       /\ twin' = twin

\* the finalizer of h runs in its own goroutine while retnode returns a Node
\* on the same node: both read the count c, and the write that comes last
\* wins, c + 1 when it is the one of retnode and c - 1 when it is the one of
\* the finalizer; explored from the states where the count is exact
RefRace ==
  /\ ~bdd.panic /\ BagCardinality(handles) <= RaceHandles
  /\ \E h \in {g \in BagToSet(handles) : g[2] /\ nd(bdd, g[1]).refcou = Held(handles, g[1])},
        d \in {-1, 1} :
       \E p \in Apply(start(bdd), xv(bdd, 0), xv(bdd, 1), OPand) :
         /\ p.node = inode(h[1]) /\ p.fin
         /\ bdd' = [p.b EXCEPT !.nodes[h[1] + 1].refcou = nd(bdd, h[1]).refcou + d]
         /\ handles' = keep(bdd, handles (-) SetToBag({h}), p.node, p.fin)
         /\ last' = call("Apply", <<xv(bdd, 0), xv(bdd, 1)>>, OPand, {}, Nil, p, Nil)
         /\ nops' = nops
         /\ twin' = twin

NextRef ==
  \/ RefAnd
  \/ RefOr
  \/ RefRace
  \/ Finalize

SpecRef == Init /\ [][NextRef]_vars

\* the same calls when no finalizer runs during a call: Nodes are created and
\* expire one at a time
NextSaturate ==
  \/ RefAnd
  \/ RefOr
  \/ Finalize

SpecSaturate == Init /\ [][NextSaturate]_vars

\* if-then-else against its definition, in the table that cannot grow:
\* b.Or(b.And(f, g), b.And(b.Not(f), h)), Nil as soon as one call fails; drops
\* are the results of the calls, which the user lets go afterwards
OrAnd(b, f, g, h) ==
  Bind(Apply(b, f, g, OPand), LAMBDA t1 :
  IF t1.b.panic \/ t1.node = Nil
  THEN {[b |-> t1.b, node |-> Nil, fin |-> FALSE, drops |-> <<>>]}
  ELSE Bind(Not(t1.b, f), LAMBDA t2 :
  IF t2.b.panic \/ t2.node = Nil
  THEN {[b |-> t2.b, node |-> Nil, fin |-> FALSE, drops |-> <<t1>>]}
  ELSE Bind(Apply(t2.b, t2.node, h, OPand), LAMBDA t3 :
  IF t3.b.panic \/ t3.node = Nil
  THEN {[b |-> t3.b, node |-> Nil, fin |-> FALSE, drops |-> <<t1, t2>>]}
  ELSE Bind(Apply(t3.b, t1.node, t3.node, OPor), LAMBDA t4 :
  {[b |-> t4.b, node |-> t4.node, fin |-> t4.fin, drops |-> <<t1, t2, t3, t4>>]}))))

\* the Nodes held after the results in drops were returned
RECURSIVE keepdrops(_, _)
keepdrops(hs, drops) ==
  IF drops = <<>> THEN hs
  ELSE keepdrops(keep(bdd, hs, Head(drops).node, Head(drops).fin), Tail(drops))

\* b.Ite(f, x1, x2), then b.Or(b.And(f, x1), b.And(b.Not(f), x2))
DeepIteOr ==
  /\ CanCallDeep
  /\ \E b0 \in {start(bdd)}, f \in Operands(bdd, handles) :
       \E p \in Ite(b0, f, xv(bdd, 1), xv(bdd, 2)) :
         \E e \in IF p.b.panic THEN {} ELSE OrAnd(p.b, f, xv(bdd, 1), xv(bdd, 2)) :
           /\ bdd' = e.b
           /\ handles' = keepdrops(keep(bdd, handles, p.node, p.fin), e.drops)
           /\ last' = call("Ite", <<f, xv(bdd, 1), xv(bdd, 2)>>, 0, {}, Nil, p, e.node)
           /\ nops' = nops + 1
           /\ twin' = twin

NextIteOr ==
  \/ DeepIteOr
  \/ DeepXor
  \/ Finalize

SpecIteOr == InitDeep /\ [][NextIteOr]_vars

\* ------------------------------------------------------------------------
\* Counting and enumerating the satisfying assignments
\* ------------------------------------------------------------------------

\* big.Int.SetBit(0, k, 1): the value 2^k (k >= 0)
RECURSIVE Pow2(_)
Pow2(k) == IF k <= 0 THEN 1 ELSE 2 * Pow2(k - 1)

\* a mutation of satcount that forgets the -1 of the skipped levels
RECURSIVE satcountSkip(_, _, _)
satcountSkip(b, n, fuel) ==
  IF n < 0 \/ n >= size(b) \/ fuel = 0 THEN -1
  ELSE IF n < 2 THEN n
  ELSE IF low(b, n) < 0 \/ low(b, n) >= size(b) THEN -1
  ELSE IF high(b, n) < 0 \/ high(b, n) >= size(b) THEN -1
  ELSE IF level(b, low(b, n)) - level(b, n) - 1 < 0 THEN -1
  ELSE IF level(b, high(b, n)) - level(b, n) - 1 < 0 THEN -1
  ELSE LET l == satcountSkip(b, low(b, n), fuel - 1)
           h == satcountSkip(b, high(b, n), fuel - 1)
       IN  IF l < 0 \/ h < 0 THEN -1
           ELSE Pow2(level(b, low(b, n)) - level(b, n)) * l
                  + Pow2(level(b, high(b, n)) - level(b, n) - 1) * h

\* BDD.satcount: the count below node n, or -1 when the Go program panics
\* (a slot index out of range, a negative bit index given to SetBit) or does
\* not return within fuel nested calls. The map satc only memoizes the value.
RECURSIVE satcount(_, _, _)
satcount(b, n, fuel) ==
  IF n < 0 \/ n >= size(b) \/ fuel = 0 THEN -1
  ELSE IF n < 2 THEN n
  ELSE IF low(b, n) < 0 \/ low(b, n) >= size(b) THEN -1
  ELSE IF high(b, n) < 0 \/ high(b, n) >= size(b) THEN -1
  ELSE IF level(b, low(b, n)) - level(b, n) - 1 < 0 THEN -1
  ELSE IF level(b, high(b, n)) - level(b, n) - 1 < 0 THEN -1
  ELSE LET l == satcount(b, low(b, n), fuel - 1)
           h == satcount(b, high(b, n), fuel - 1)
       IN  IF l < 0 \/ h < 0 THEN -1
           ELSE Pow2(level(b, low(b, n)) - level(b, n) - 1) * l
                  + Pow2(level(b, high(b, n)) - level(b, n) - 1) * h

\* BDD.Satcount: the engine after the call and the number returned
Satcount(b, n) ==
  IF checkptr(b, n).err
  THEN IF n = Nil THEN R(panic(b), 0) ELSE R(seterror(b), 0)
  ELSE LET c == satcount(b, n[1], size(b))
       IN  IF c < 0 THEN R(panic(b), 0) ELSE R(b, Pow2(level(b, n[1])) * c)

\* b.Satcount(n) on a Node held by the user or on a wrong Node
DoSatcount ==
  /\ CanCall
  /\ \E b0 \in {start(bdd)}, n \in Valid(bdd, handles) \cup Bad(bdd) :
       LET r == Satcount(b0, n)
       IN  /\ bdd' = r.b
           /\ handles' = handles
           /\ last' = [call("Satcount", <<n>>, 0, {}, Nil, P(r.b, Nil, FALSE), Nil)
                         EXCEPT !.out = <<r.res>>]
           /\ nops' = nops + 1
           /\ twin' = twin

\* the state of an enumeration: the slice prof, the copies of prof that the
\* callback f has received so far, the rank of the call at which f returns an
\* error (0: never), the value returned by the last call of allsat (TRUE: an
\* error), and whether the Go program panicked
allsatstart(b, failat) ==
  [prof |-> [v \in 1..b.varnum |-> -1], calls |-> <<>>, failat |-> failat,
   err |-> FALSE, panic |-> FALSE]

\* return f(prof)
callf(st) ==
  [st EXCEPT !.calls = Append(@, st.prof), !.err = (Len(st.calls) + 1 = st.failat)]

\* a mutation of setprof that does not reset the entries of the levels between
\* the node and its child
setprofKeep(prof, lv, val, lvchild) ==
  [v \in DOMAIN prof |-> IF v = lv + 1 THEN val ELSE prof[v]]

\* prof[level(n)] = val, then prof[v] = -1 for level(n) < v < level(child)
setprof(prof, lv, val, lvchild) ==
  [v \in DOMAIN prof |->
     IF v = lv + 1 THEN val
     ELSE IF v - 1 > lv /\ v - 1 < lvchild THEN -1
     ELSE prof[v]]

\* BDD.allsat; a slot index or a level out of range panics, and so does a
\* recursion that does not return within fuel nested calls
RECURSIVE allsat(_, _, _, _)
allsat(b, n, st, fuel) ==
  IF st.panic THEN st
  ELSE IF n = 1 THEN callf(st)
  ELSE IF n = 0 THEN [st EXCEPT !.err = FALSE]
  ELSE IF \/ n < 0 \/ n >= size(b) \/ fuel = 0
          \/ low(b, n) < 0 \/ low(b, n) >= size(b)
          \/ high(b, n) < 0 \/ high(b, n) >= size(b)
          \/ level(b, n) >= b.varnum
       THEN [st EXCEPT !.panic = TRUE]
  ELSE LET lo == low(b, n)
           hi == high(b, n)
           s1 == IF lo # 0
                 THEN allsat(b, lo,
                        [st EXCEPT !.prof = setprof(@, level(b, n), 0, level(b, lo))],
                        fuel - 1)
                 ELSE [st EXCEPT !.err = FALSE]
       IN  IF s1.panic THEN s1
           ELSE IF s1.err THEN [s1 EXCEPT !.err = FALSE]       \* return nil
           ELSE LET s2 == IF hi # 0
                          THEN allsat(b, hi,
                                 [s1 EXCEPT !.prof = setprof(@, level(b, n), 1, level(b, hi))],
                                 fuel - 1)
                          ELSE s1
                IN  IF s2.panic THEN s2 ELSE [s2 EXCEPT !.err = FALSE]

\* BDD.Allsat with a callback that fails at its call number failat: the engine
\* after the call, the profiles f received and whether an error is returned
Allsat(b, failat, n) ==
  LET c == checkptr(b, n)
  IN  IF c.err
      THEN IF n = Nil THEN [b |-> panic(c.b), calls |-> <<>>, err |-> FALSE]
           ELSE [b |-> c.b, calls |-> <<>>, err |-> TRUE]
      ELSE LET st == allsat(b, n[1], allsatstart(b, failat), size(b))
           IN  [b |-> IF st.panic THEN panic(b) ELSE b, calls |-> st.calls, err |-> st.err]

MaxFail == 2

\* the calls at which the callback of DoAllsat returns an error (0: never)
FailAts == 0..MaxFail

\* b.Allsat(f, n) on a Node held by the user or on a wrong Node
DoAllsat ==
  /\ CanCall
  /\ \E b0 \in {start(bdd)}, n \in Valid(bdd, handles) \cup Bad(bdd), failat \in FailAts :
       LET r == Allsat(b0, failat, n)
       IN  /\ bdd' = r.b
           /\ handles' = handles
           /\ last' = [call("Allsat", <<n>>, failat, {}, Nil, P(r.b, Nil, FALSE), Nil)
                         EXCEPT !.out = <<r.calls, r.err>>]
           /\ nops' = nops + 1
           /\ twin' = twin

\* ------------------------------------------------------------------------
\* Allnodes
\* ------------------------------------------------------------------------

\* first loop of tables.allnodesfrom: mark what the roots reach
RECURSIVE markroots(_, _, _)
markroots(nodes, ns, i) ==
  IF i > Len(ns) THEN {nodes}
  ELSE Bind(markrec(nodes, ns[i][1]), LAMBDA m : markroots(m, ns, i + 1))

\* a mutation of unmarkall that leaves the marks
unmarkallSkip(nodes) == nodes

\* tables.unmarkall
unmarkall(nodes) ==
  [k \in DOMAIN nodes |->
     IF k - 1 < 2 \/ ~ismarked(nodes, k - 1) \/ nodes[k].low = -1 THEN nodes[k]
     ELSE unmarknode(nodes, k - 1)[k]]

\* the arguments that the callback of Allnodes receives for slot k
nodeargs(nodes, k) == <<k, nodes[k + 1].level, nodes[k + 1].low, nodes[k + 1].high>>

\* second loop of tables.allnodesfrom, from slot k on; the callback returns an
\* error at its call number failat
RECURSIVE visitmarked(_, _, _, _)
visitmarked(nodes, k, calls, failat) ==
  IF k >= Len(nodes) THEN [nodes |-> nodes, calls |-> calls, err |-> FALSE]
  ELSE IF ismarked(nodes, k)
       THEN LET u == unmarknode(nodes, k)
                c == Append(calls, nodeargs(u, k))
            IN  IF Len(c) = failat
                THEN [nodes |-> unmarkall(u), calls |-> c, err |-> TRUE]
                ELSE visitmarked(u, k + 1, c, failat)
       ELSE visitmarked(nodes, k + 1, calls, failat)

allnodesfrom(b, failat, ns) ==
  Bind(markroots(b.nodes, ns, 1), LAMBDA m :
  {visitmarked(m, 0, <<>>, failat)})

\* tables.allnodes: the callback on every slot in use, from slot k on
RECURSIVE allnodes(_, _, _, _)
allnodes(nodes, k, calls, failat) ==
  IF k >= Len(nodes) THEN [nodes |-> nodes, calls |-> calls, err |-> FALSE]
  ELSE IF nodes[k + 1].low # -1
       THEN LET c == Append(calls, nodeargs(nodes, k))
            IN  IF Len(c) = failat THEN [nodes |-> nodes, calls |-> c, err |-> TRUE]
                ELSE allnodes(nodes, k + 1, c, failat)
       ELSE allnodes(nodes, k + 1, calls, failat)

\* the checkptr loop of BDD.Allnodes
RECURSIVE checkptrs(_, _, _)
checkptrs(b, ns, i) ==
  IF i > Len(ns) THEN [b |-> b, err |-> FALSE]
  ELSE IF checkptr(b, ns[i]).err THEN checkptr(b, ns[i])
  ELSE checkptrs(b, ns, i + 1)

\* BDD.Allnodes with a callback that fails at its call number failat
Allnodes(b, failat, ns) ==
  LET c == checkptrs(b, ns, 1)
  IN  IF c.err THEN {[b |-> c.b, calls |-> <<>>, err |-> TRUE]}
      ELSE Bind(IF Len(ns) = 0 THEN {allnodes(b.nodes, 0, <<>>, failat)}
                ELSE allnodesfrom(b, failat, ns), LAMBDA r :
           {[b |-> [b EXCEPT !.nodes = r.nodes], calls |-> r.calls, err |-> r.err]})

\* the lists of Nodes given to Allnodes
Roots(b, hs) ==
  {<<>>} \cup {<<n>> : n \in Valid(b, hs) \cup Bad(b)}
    \cup {<<n, m>> : n \in Valid(b, hs), m \in Valid(b, hs)}

\* b.Allnodes(f, ns...)
DoAllnodes ==
  /\ CanCall
  /\ \E b0 \in {start(bdd)}, ns \in Roots(bdd, handles), failat \in FailAts :
       \E r \in Allnodes(b0, failat, ns) :
         /\ bdd' = r.b
         /\ handles' = handles
         /\ last' = [call("Allnodes", ns, failat, {}, Nil, P(r.b, Nil, FALSE), Nil)
                       EXCEPT !.out = <<r.calls, r.err>>]
         /\ nops' = nops + 1
         /\ twin' = twin

\* counting and enumeration: Apply and Not build the Nodes, Satcount,
\* Allsat and Allnodes read them
NextCount ==
  \/ DoNot
  \/ DoApply
  \/ DoSatcount
  \/ DoAllsat
  \/ DoAllnodes
  \/ Finalize

SpecCount == Init /\ [][NextCount]_vars

\* ------------------------------------------------------------------------
\* Limits on the size of the table
\* ------------------------------------------------------------------------

LimitNodesize == 11

\* New(Varnum, Cachesize(1), Maxnodesize(LimitNodesize), Maxnodeincrease(inc)),
\* with no limit on the increase (0) or the default one
LimitConfigs ==
  {Maxnodeincrease(Maxnodesize(Cachesize(makeconfigs(Varnum), 1), LimitNodesize), inc) :
     inc \in {0, DEFAULTMAXNODEINC}}

InitLimit ==
  /\ \E c \in LimitConfigs : bdd \in New(c)
  /\ handles = EmptyBag
  /\ last = NoCall
  /\ nops = 0
  /\ twin = NoTwin

SpecLimit == InitLimit /\ [][Next]_vars

\* ------------------------------------------------------------------------
\* Replacing variables
\* ------------------------------------------------------------------------

cacheidREPLACE == 0

\* what NewReplacer gives besides a replacer (err is ""): a nil Replacer with an
\* error, and no value when the Go program panics on an index out of range
NoReplacer == [err |-> "error", id |-> 0, image |-> <<>>, last |-> 0]

Panicked == [err |-> "panic", id |-> 0, image |-> <<>>, last |-> 0]

\* second loop of NewReplacer: a new variable must not be replaced itself
RECURSIVE newvarsloop(_, _, _)
newvarsloop(r, newv, k) ==
  IF k > Len(newv) THEN r
  ELSE IF newv[k] < 0 THEN Panicked                        \* res.image[v]
  ELSE IF r.image[newv[k] + 1] # newv[k] THEN NoReplacer
  ELSE newvarsloop(r, newv, k + 1)

\* first loop of NewReplacer, at position k of oldvars; support[v] is read
\* before v is compared with varnum
RECURSIVE oldvarsloop(_, _, _, _, _, _)
oldvarsloop(b, r, support, oldv, newv, k) ==
  IF k > Len(oldv) THEN newvarsloop(r, newv, 1)
  ELSE IF oldv[k] < 0 \/ oldv[k] >= b.varnum THEN Panicked  \* support[v]
  ELSE IF support[oldv[k] + 1] THEN NoReplacer
  ELSE IF newv[k] >= b.varnum THEN NoReplacer
  ELSE oldvarsloop(b,
         [r EXCEPT !.image[oldv[k] + 1] = newv[k],
                   !.last = IF oldv[k] > r.last THEN oldv[k] ELSE r.last],
         [support EXCEPT ![oldv[k] + 1] = TRUE], oldv, newv, k + 1)

\* BDD.NewReplacer called when the counter _REPLACEID is n: the replacer,
\* NoReplacer when an error is returned, or Panicked
NewReplacer(b, n, oldv, newv) ==
  IF Len(oldv) # Len(newv) THEN NoReplacer
  ELSE IF n = MaxInt32 \div 4 THEN NoReplacer
  ELSE oldvarsloop(b, [err |-> "", id |-> n * 4 + cacheidREPLACE,
                       image |-> [k \in 1..b.varnum |-> k - 1],
                       last  |-> 0],
                   [k \in 1..b.varnum |-> FALSE], oldv, newv, 1)

\* the replacers of the user: one variable replaced by another one, each
\* created once, in the order of the pairs
Renamings(b) ==
  {<<o, n>> : o \in 0..(b.varnum - 1), n \in 0..(b.varnum - 1)}

Replacers(b) ==
  {NewReplacer(b, 1 + rn[1] * b.varnum + rn[2], <<rn[1]>>, <<rn[2]>>) :
     rn \in Renamings(b)} \ {NoReplacer}

\* an engine of DeepVarnum variables whose table grows
ReplaceConfig == Cachesize(makeconfigs(DeepVarnum), 1)

InitReplace ==
  /\ bdd \in New(ReplaceConfig)
  /\ handles = EmptyBag
  /\ last = NoCall
  /\ nops = 0
  /\ twin = NoTwin

\* b.Replace(n, r) on a Node held by the user; vs records the renaming as the
\* pairs <<level, image>> of the levels that r changes
DoReplace ==
  /\ CanCallDeep
  /\ \E b0 \in {start(bdd)}, n \in Valid(bdd, handles) \cup Bad(bdd), r \in Replacers(bdd) :
       \E p \in Replace(b0, n, r) :
         /\ bdd' = p.b
         /\ handles' = keep(bdd, handles, p.node, p.fin)
         /\ last' = call("Replace", <<n>>, r.id,
                         {<<k - 1, r.image[k]>> : k \in {j \in DOMAIN r.image : r.image[j] # j - 1}},
                         Nil, p, Nil)
         /\ nops' = nops + 1
         /\ twin' = twin

NextReplace ==
  \/ DeepApply
  \/ DoReplace
  \/ Finalize

SpecReplace == InitReplace /\ [][NextReplace]_vars

\* ------------------------------------------------------------------------
\* Scanset
\* ------------------------------------------------------------------------

\* a mutation of scanloop that follows the low branch
RECURSIVE scanloopLow(_, _, _, _)
scanloopLow(b, i, res, fuel) ==
  IF i <= 1 \/ fuel = 0 THEN res
  ELSE scanloopLow(b, low(b, i), Append(res, level(b, i)), fuel - 1)

\* the loop of Scanset: the levels met along the high branch, from node i on
RECURSIVE scanloop(_, _, _, _)
scanloop(b, i, res, fuel) ==
  IF i <= 1 \/ fuel = 0 THEN res
  ELSE scanloop(b, high(b, i), Append(res, level(b, i)), fuel - 1)

\* BDD.Scanset: the engine after the call and the slice returned (a nil slice
\* is the empty sequence)
Scanset(b, n) ==
  IF checkptr(b, n).err THEN R(checkptr(b, n).b, <<>>)
  ELSE IF n[1] < 2 THEN R(b, <<>>)
  ELSE R(b, scanloop(b, n[1], <<>>, size(b)))

\* b.Scanset(b.Makeset(vl)); out records the slice vl and the slice returned
DoScanset ==
  /\ CanCall
  /\ \E b0 \in {start(bdd)}, vl \in VarLists \cup OddLists :
       \E m \in Makeset(b0, vl) :
         \E s \in IF m.b.panic THEN {R(m.b, <<>>)} ELSE {Scanset(m.b, m.node)} :
           /\ bdd' = s.b
           /\ handles' = keep(bdd, keepall(bdd, handles, m.drops), m.node, m.fin)
           /\ last' = [call("Scanset", <<>>, 0, Range(vl), m.node, m, Nil)
                         EXCEPT !.out = <<vl, s.res>>]
           /\ nops' = nops + 1
           /\ twin' = twin

\* sets of variables: Makeset and Scanset, and Apply on right and wrong Nodes
NextSet ==
  \/ DoApply
  \/ DoScanset
  \/ Finalize

SpecSet == Init /\ [][NextSet]_vars

\* ---------------------------------------------------------------------------
\* NewReplacer on arbitrary slices of indexes
\* ---------------------------------------------------------------------------

\* longest slice given to NewReplacer
MaxReplaced == 2

\* the slices of indexes given to NewReplacer: any int, in range or not
ReplacerLists ==
  UNION {[1..l -> -1..DeepVarnum] : l \in 0..MaxReplaced}

\* b.NewReplacer(oldvars, newvars); nops counts the replacers created so far,
\* so that _REPLACEID is nops + 1; out records the slices and what is returned
DoNewReplacer ==
  /\ ~bdd.panic /\ nops < DeepOps
  /\ \E oldv \in ReplacerLists, newv \in ReplacerLists :
       \E r \in {NewReplacer(bdd, nops + 1, oldv, newv)} :
         /\ bdd' = IF r = Panicked THEN panic(bdd) ELSE bdd
         /\ last' = [call("NewReplacer", <<>>, nops + 1, {}, Nil,
                          P(bdd, Nil, FALSE), Nil)
                       EXCEPT !.out = <<oldv, newv, r>>]
         /\ nops' = IF Len(oldv) = Len(newv) THEN nops + 1 ELSE nops
         /\ UNCHANGED <<handles, twin>>

NextReplacer == DoNewReplacer

SpecReplacer == InitReplace /\ [][NextReplacer]_vars

\* ---------------------------------------------------------------------------
\* Not applied to the result of Not
\* ---------------------------------------------------------------------------

\* number of public operations up to the second Not
NotOps == 5

\* engines of DeepVarnum variables, with a table that grows and with one that
\* cannot
InitNot ==
  /\ bdd \in New(ReplaceConfig) \cup New(DeepConfig)
  /\ handles = EmptyBag
  /\ last = NoCall
  /\ nops = 0
  /\ twin = NoTwin

\* an operation of the user between m := b.Not(n) and b.Not(m); the record of
\* the call keeps n and m
NotBetween ==
  /\ ~bdd.panic /\ nops < NotOps - 1
  /\ last.kind = "Not" /\ last.node # Nil
  /\ \E b0 \in {start(bdd)}, n1, n2 \in Operands(bdd, handles), op \in {OPand, OPxor} :
       \E p \in Apply(b0, n1, n2, op) :
         /\ bdd' = p.b
         /\ handles' = keep(bdd, handles, p.node, p.fin)
         /\ last' = [call("Between", last.args, op, {}, Nil, p, Nil)
                       EXCEPT !.node = last.node, !.preerr = last.preerr]
         /\ nops' = nops + 1
         /\ twin' = twin

\* b.Not(m) where m is the Node that the last b.Not(n) returned; alt records n
NotAgain ==
  /\ ~bdd.panic /\ nops < NotOps
  /\ last.kind \in {"Not", "Between"} /\ last.node # Nil
  /\ \E b0 \in {start(bdd)} :
       \E p \in Not(b0, last.node) :
         /\ bdd' = p.b
         /\ handles' = keep(bdd, handles, p.node, p.fin)
         /\ last' = call("NotNot", <<last.node>>, opnot, {}, Nil, p, last.args[1])
         /\ nops' = nops + 1
         /\ twin' = twin

NextNot ==
  \/ DeepApply
  \/ DeepNot
  \/ NotBetween
  \/ NotAgain
  \/ Finalize

SpecNot == InitNot /\ [][NextNot]_vars

\* ---------------------------------------------------------------------------
\* Entries of the operation caches written and looked up in any order
\* ---------------------------------------------------------------------------

\* number of entries written
CacheOps == 2

\* the node ids used as operands and the values stored as results
CacheNodes == 2..3

CacheRes == {1, 3}

\* the ids that AppEx and Exist give to the caches for a set of variables
AppexIds(varset) == {varset * 4 + op : op \in OPand..OPnand}

QuantIds(varset) == {cacheidEXIST} \cup {id * 8 + cacheidAPPEX : id \in AppexIds(varset)}

\* who wrote each slot of the five caches last: <<operation, a, b, c>>, in
\* the order apply, ite, quant, appex, replace
NoWriter == <<"none", 0, 0, 0>>

Writers ==
  IF last.out # <<>> THEN last.out
  ELSE <<[k \in DOMAIN bdd.applycache.table |-> NoWriter],
         [k \in DOMAIN bdd.itecache.table |-> NoWriter],
         [k \in DOMAIN bdd.quantcache.table |-> NoWriter],
         [k \in DOMAIN bdd.appexcache.table |-> NoWriter],
         [k \in DOMAIN bdd.replacecache.table |-> NoWriter]>>

\* the writers after w changed the table of cache c from old to new
Written(c, old, new, w) ==
  [Writers EXCEPT ![c] = [k \in DOMAIN @ |-> IF old[k] # new[k] THEN w ELSE @[k]]]

\* the state after the write that turned bdd into b; vs records the writers
\* of the entries that the write replaced
CacheWrote(b, ws) ==
  /\ bdd' = b
  /\ last' = [NoCall EXCEPT !.kind = "Cache", !.out = ws,
                            !.vs = {Writers[c][k] : c \in DOMAIN ws, k \in DOMAIN ws[1]}
                                     \ {ws[c][k] : c \in DOMAIN ws, k \in DOMAIN ws[1]}]
  /\ nops' = nops + 1
  /\ UNCHANGED <<handles, twin>>

CacheApply ==
  /\ nops < CacheOps
  /\ \E left, right \in CacheNodes, op \in OPand..OPinvimp, res \in CacheRes :
       \E b \in {setapply([bdd EXCEPT !.applycache.op = op], left, right, res)} :
         CacheWrote(b, Written(1, bdd.applycache.table, b.applycache.table,
                               <<"apply", left, right, op>>))

CacheNot ==
  /\ nops < CacheOps
  /\ \E n \in CacheNodes, res \in CacheRes :
       \E b \in {setnot(bdd, n, res)} :
         CacheWrote(b, Written(1, bdd.applycache.table, b.applycache.table,
                               <<"not", n, 0, opnot>>))

CacheIte ==
  /\ nops < CacheOps
  /\ \E f, g, h \in CacheNodes, res \in CacheRes :
       \E b \in {setite(bdd, f, g, h, res)} :
         CacheWrote(b, Written(2, bdd.itecache.table, b.itecache.table,
                               <<"ite", f, g, h>>))

CacheQuant ==
  /\ nops < CacheOps
  /\ \E n, varset \in CacheNodes, res \in CacheRes :
       \E id \in QuantIds(varset) :
         \E b \in {setquant([bdd EXCEPT !.quantcache.id = id], n, varset, res)} :
           CacheWrote(b, Written(3, bdd.quantcache.table, b.quantcache.table,
                                 <<"quant", n, varset, id>>))

CacheAppex ==
  /\ nops < CacheOps
  /\ \E left, right, varset \in CacheNodes, res \in CacheRes :
       \E id \in AppexIds(varset) :
         \E b \in {setappex([bdd EXCEPT !.appexcache.id = id], left, right, res)} :
           CacheWrote(b, Written(4, bdd.appexcache.table, b.appexcache.table,
                                 <<"appex", left, right, id>>))

CacheReplace ==
  /\ nops < CacheOps
  /\ \E n \in CacheNodes, k \in 1..CacheOps, res \in CacheRes :
       \E b \in {setreplace([bdd EXCEPT !.replacecache.id = k * 4 + cacheidREPLACE], n, res)} :
         CacheWrote(b, Written(5, bdd.replacecache.table, b.replacecache.table,
                               <<"replace", n, 0, k * 4 + cacheidREPLACE>>))

\* the reset that follows a reclamation
CacheReset ==
  /\ last.kind = "Cache"
  /\ bdd' = cachereset(bdd)
  /\ last' = [last EXCEPT !.out = [c \in DOMAIN @ |-> [k \in DOMAIN @[c] |-> NoWriter]],
                          !.vs = {}]
  /\ UNCHANGED <<handles, nops, twin>>

NextCache ==
  \/ CacheApply
  \/ CacheNot
  \/ CacheIte
  \/ CacheQuant
  \/ CacheAppex
  \/ CacheReplace
  \/ CacheReset

SpecCache == InitReplace /\ [][NextCache]_vars

\* ------------------------------------------------------------------------
\* Allnodes with a callback that calls the engine
\* ------------------------------------------------------------------------

\* the ranks of the call at which the callback calls the engine
MaxVisit == 3

\* second loop of tables.allnodesfrom, from slot k on, over the n slots the
\* table had when the loop started, up to the return of the call number at of
\* the callback (0: up to the end); k is the slot the loop goes on with
RECURSIVE visituntil(_, _, _, _, _)
visituntil(nodes, k, n, calls, at) ==
  IF k >= n THEN [nodes |-> nodes, calls |-> calls, k |-> k]
  ELSE IF ismarked(nodes, k)
       THEN LET u == unmarknode(nodes, k)
                c == Append(calls, nodeargs(u, k))
            IN  IF Len(c) = at THEN [nodes |-> u, calls |-> c, k |-> k + 1]
                ELSE visituntil(u, k + 1, n, c, at)
       ELSE visituntil(nodes, k + 1, n, calls, at)

\* BDD.Allnodes on the roots ns with a callback that, at its call number
\* cb.at, calls b.Apply(cb.n1, cb.n2, cb.op), keeps the Node and returns nil
AllnodesWith(b, ns, cb) ==
  LET c == checkptrs(b, ns, 1)
  IN  IF c.err THEN {[b |-> c.b, calls |-> <<>>, node |-> Nil, fin |-> FALSE]}
      ELSE Bind(markroots(b.nodes, ns, 1), LAMBDA m :
           Bind({visituntil(m, 0, Len(m), <<>>, cb.at)}, LAMBDA s1 :
           IF Len(s1.calls) < cb.at
           THEN {[b |-> [b EXCEPT !.nodes = s1.nodes], calls |-> s1.calls,
                  node |-> Nil, fin |-> FALSE]}
           ELSE Bind(Apply([b EXCEPT !.nodes = s1.nodes], cb.n1, cb.n2, cb.op), LAMBDA p :
                IF p.b.panic
                THEN {[b |-> p.b, calls |-> s1.calls, node |-> Nil, fin |-> FALSE]}
                ELSE Bind({visituntil(p.b.nodes, s1.k, Len(m), s1.calls, 0)}, LAMBDA s2 :
                     {[b |-> [p.b EXCEPT !.nodes = s2.nodes], calls |-> s2.calls,
                       node |-> p.node, fin |-> p.fin]}))))

\* the nodes under the slots of roots, with their fields: <<id, level, low,
\* high>>
Graph(b, roots) ==
  {nodeargs(b.nodes, n) : n \in UNION {under(b.nodes, r, size(b)) : r \in roots}}

\* b.Allnodes(f, n) on a Node that the user holds, where f calls b.And at
\* one of its calls (apply compares the levels with their mark bit: on a
\* marked operand and the constant 1 the recursion of Xor does not end); the record of the call keeps what n reached and what the
\* Nodes held reached when the call started, and the arguments f received
DoVisit ==
  /\ CanCallDeep
  /\ \E b0 \in {start(bdd)}, h \in BagToSet(handles), at \in 1..MaxVisit,
        n1, n2 \in Operands(bdd, handles), op \in {OPand} :
       \E r \in AllnodesWith(b0, <<inode(h[1])>>,
                             [at |-> at, n1 |-> n1, n2 |-> n2, op |-> op]) :
         /\ bdd' = r.b
         /\ handles' = keep(bdd, handles, r.node, r.fin)
         /\ last' = [call("Visit", <<inode(h[1])>>, at, Graph(bdd, {h[1]}),
                          Graph(bdd, {g[1] : g \in BagToSet(handles)}),
                          P(r.b, r.node, r.fin), Nil)
                       EXCEPT !.out = r.calls]
         /\ nops' = nops + 1
         /\ twin' = twin

\* the enumeration of a graph while the table is full or nearly so: And, Xor
\* and Not build the Nodes
NextVisit ==
  \/ DeepApply
  \/ DeepNot
  \/ DoVisit
  \/ Finalize

SpecVisit == InitNot /\ [][NextVisit]_vars

\* ------------------------------------------------------------------------
\* Growth of the table
\* ------------------------------------------------------------------------

\* the limit on the increase and the ratio of free nodes given to New
GrowIncrease == 4

GrowMinfree == 18

\* New(DeepVarnum, Cachesize(1), Maxnodeincrease(inc), Minfreenodes(ratio)),
\* with no limit on the increase (0) or a limit under the size of the table,
\* and with the default ratio or one that two free slots of eleven reach
GrowConfigs ==
  {Minfreenodes(Maxnodeincrease(Cachesize(makeconfigs(DeepVarnum), 1), inc), ratio) :
     inc \in {0, GrowIncrease}, ratio \in {MINFREENODES, GrowMinfree}}

InitGrow ==
  /\ \E c \in GrowConfigs : bdd \in New(c)
  /\ handles = EmptyBag
  /\ last = NoCall
  /\ nops = 0
  /\ twin = NoTwin

SpecGrow == InitGrow /\ [][NextDeep]_vars

\* ------------------------------------------------------------------------
\* The epoch of the quantification set
\* ------------------------------------------------------------------------

\* the engine after k calls b.Exist(b.True(), b.Ithvar(0)): each call goes
\* through quantset2cache on the node of variable 0 and returns its operand
AfterExists(b, k) ==
  IF k = 0 THEN b
  ELSE [b EXCEPT !.quantsetID = k, !.quantset[1] = k, !.quantlast = 0]

\* the calls made before the first state: none, or so many that the second
\* call of quantset2cache from there reaches math.MaxInt32
EarlierCalls == {0, MaxInt32 - 2}

InitEpoch ==
  /\ \E c \in Configs, k \in EarlierCalls : bdd \in {AfterExists(b, k) : b \in New(c)}
  /\ handles = EmptyBag
  /\ last = NoCall
  /\ nops = 0
  /\ twin = NoTwin

NextEpoch ==
  \/ DoExist
  \/ DoAppEx
  \/ Finalize

SpecEpoch == InitEpoch /\ [][NextEpoch]_vars

\* ------------------------------------------------------------------------
\* Properties
\* ------------------------------------------------------------------------

\* the algorithms, as opposed to the constructors Ithvar and Makeset
Algorithms == {"Not", "Apply", "Ite", "Exist", "AppEx", "Replace"}

\* the operands of the last call passed checkptr and denote functions
ValidOperands ==
  /\ ~last.bad
  /\ \A i \in DOMAIN last.pre : last.pre[i].ok

\* C1: Apply(l, r, op) on valid nodes returns the node of the function given
\* by the truth table of op applied to the functions of l and r, for each of
\* the ten operators
C1_ApplyTruthTable ==
  (last.kind = "Apply" /\ ValidOperands /\ last.node # Nil)
    => SemOf(bdd, last.node) =
         [ok |-> TRUE, f |-> OpSem(bdd, last.code, last.pre[1].f, last.pre[2].f)]

\* C2: a node with a live Node on it is never reclaimed, and its refcou
\* either counts exactly the live Nodes on it or is saturated
C2_LiveNodeKept ==
  \A h \in BagToSet(handles) :
    /\ nd(bdd, h[1]).low # -1
    /\ \/ nd(bdd, h[1]).refcou = Held(handles, h[1])
       \/ nd(bdd, h[1]).refcou = MAXREFCOUNT

\* C3: the function of the node that an operation returns is the same in an
\* engine with a small table and in an engine with a large table that is
\* given the same calls
C3_SameFunctionAnySize ==
  (last.kind \in {"Apply", "Not"} /\ last.node # Nil /\ last.alt # Nil)
    => SemOf(bdd, last.node) = SemOf(twin.b, last.alt)

\* C4: when makenode finds no free slot after the reclamation and cannot
\* grow the table, the operation returns nil and the engine is in the error
\* state
C4_ExhaustionSetsError ==
  (last.kind \in Algorithms /\ bdd.didfull /\ ~bdd.panic)
    => (last.node = Nil /\ bdd.error)

\* C5: when makenode returns -1 inside an operation, the operation returns
\* nil and no later makenode of the operation stores a node with a negative
\* child
C5_SentinelPropagates ==
  (last.kind \in Algorithms /\ bdd.didoom /\ ~bdd.panic)
    => (last.node = Nil /\ ~bdd.didneg)

\* C6: an algorithm called when the error state is set returns nil
C6_FastFail ==
  (last.kind \in Algorithms /\ last.preerr) => last.node = Nil

\* C7: an algorithm called with an invalid operand (nil, an id outside the
\* table, the id of a free slot) returns, with nil, and the error state is set
C7_InvalidOperand ==
  (last.kind \in Algorithms /\ last.bad)
    => (~bdd.panic /\ bdd.error /\ last.node = Nil)

\* C8: AndExist(v, l, r) returns the same node id as Exist(And(l, r), v)
\* whenever both computations succeed
C8_RelProdSameNode ==
  (last.kind = "AndExist" /\ ValidOperands /\ last.node # Nil /\ last.alt # Nil)
    => last.node = last.alt

\* AppEx with valid operands and an operator code in codes computes a result
\* (it returns a Node unless the table is exhausted, and sets no error); with
\* any other code it sets the error and returns nil
AppExAccepts(codes) ==
  (last.kind = "AppEx" /\ ValidOperands /\ last.set # Nil /\ ~bdd.panic)
    => IF last.code \in codes
       THEN (bdd.didoom \/ last.node # Nil) /\ (bdd.error = last.preerr)
       ELSE last.node = Nil /\ bdd.error

\* C9 (as stated): AppEx accepts exactly the operator codes 0 to 4, that is
\* and, xor, or, nand and nor, and refuses the codes 5 to 9
C9_AppExCodes0to4 == AppExAccepts(OPand..OPnor)

\* C9 (amended): AppEx accepts exactly the operator codes 0 to 3, that is
\* and, xor, or and nand, and refuses the codes 4 to 9, nor included
C9_AppExCodes0to3 == AppExAccepts(OPand..OPnand)

\* AppEx refused nor on valid operands and a set of variables that is not
\* empty, in an engine that had no error
C9_NorRefused ==
  /\ last.kind = "AppEx" /\ ValidOperands /\ last.set # Nil /\ last.vs # {}
  /\ last.code = OPnor /\ ~last.preerr
  /\ bdd.error /\ last.node = Nil

\* C10: Exist(n, v) on a valid node and a non-empty set of variables built by
\* Makeset returns the node of the existential quantification of n over v
C10_ExistSemantics ==
  (/\ last.kind = "Exist" /\ ValidOperands /\ last.set # Nil /\ last.vs # {}
   /\ ~last.preerr /\ last.node # Nil)
    => SemOf(bdd, last.node) =
         [ok |-> TRUE, f |-> ExistSem(bdd, last.pre[1].f, last.vs)]

\* C11: Exist(n, v) with v a constant node (the empty set of variables, as
\* Makeset returns it for an empty list) returns n and sets no error
C11_ExistEmptySet ==
  (/\ last.kind = "Exist" /\ ValidOperands
   /\ last.set # Nil /\ last.set \in {bddzero, bddone} /\ last.vs = {})
    => (last.node = last.args[1] /\ bdd.error = last.preerr)

\* C12: Ite(f, g, h) returns the same node id as Or(And(f, g), And(Not(f), h))
C12_IteIsOrAnd ==
  (last.kind = "Ite" /\ ValidOperands /\ last.node # Nil /\ last.alt # Nil)
    => last.node = last.alt

\* node n is the root of an ordered diagram of the table: no free slot below
\* it and levels that strictly increase from a node to its children
RECURSIVE IsBDD(_, _, _)
IsBDD(b, n, fuel) ==
  IF n < 0 \/ n >= size(b) \/ fuel = 0 THEN FALSE
  ELSE IF n < 2 THEN TRUE
  ELSE /\ low(b, n) >= 0 /\ low(b, n) < size(b)
       /\ high(b, n) >= 0 /\ high(b, n) < size(b)
       /\ level(b, n) < level(b, low(b, n))
       /\ level(b, n) < level(b, high(b, n))
       /\ IsBDD(b, low(b, n), fuel - 1)
       /\ IsBDD(b, high(b, n), fuel - 1)

\* C13: for every valid node n, Satcount(n) is the number of assignments of
\* all the variables that satisfy the function represented by n
C13_SatcountCountsModels ==
  (/\ last.kind = "Satcount" /\ ValidOperands
   /\ IsBDD(bdd, last.args[1][1], size(bdd)))
    => (~bdd.panic /\ last.out = <<Cardinality(last.pre[1].f)>>)

\* a count was returned for a Node that skips a level and is no constant
C13_Counted ==
  /\ last.kind = "Satcount" /\ ValidOperands
  /\ IsBDD(bdd, last.args[1][1], size(bdd))
  /\ last.args[1][1] >= 2
  /\ last.out = <<3>>

\* the assignments that a profile of Allsat stands for
Cube(b, prof) ==
  {a \in Assignments(b) :
     \A v \in DOMAIN prof : /\ prof[v] = 1 => (v - 1) \in a
                            /\ prof[v] = 0 => (v - 1) \notin a}

\* two options per don't-care entry
Weight(prof) == Pow2(Cardinality({v \in DOMAIN prof : prof[v] = -1}))

RECURSIVE TotalWeight(_)
TotalWeight(calls) ==
  IF calls = <<>> THEN 0 ELSE Weight(Head(calls)) + TotalWeight(Tail(calls))

\* C14: for every valid node n, the partial assignments that Allsat passes to
\* a callback that never fails are pairwise disjoint, cover exactly the
\* satisfying assignments of n, and their total weight is Satcount(n)
C14_AllsatPartition ==
  (/\ last.kind = "Allsat" /\ ValidOperands /\ last.code = 0
   /\ IsBDD(bdd, last.args[1][1], size(bdd)))
    => LET calls == last.out[1]
       IN  /\ ~bdd.panic
           /\ ~last.out[2]
           /\ \A i, j \in DOMAIN calls :
                i # j => Cube(bdd, calls[i]) \cap Cube(bdd, calls[j]) = {}
           /\ UNION {Cube(bdd, calls[i]) : i \in DOMAIN calls} = last.pre[1].f
           /\ TotalWeight(calls) = Satcount(bdd, last.args[1]).res

\* an enumeration of several profiles, one of them with a don't-care entry
C14_Enumerated ==
  /\ last.kind = "Allsat" /\ ValidOperands /\ last.code = 0
  /\ IsBDD(bdd, last.args[1][1], size(bdd))
  /\ Len(last.out[1]) >= 2
  /\ \E i \in DOMAIN last.out[1] : Weight(last.out[1][i]) = 2

\* C15: if the callback returns an error for some assignment, Allsat does not
\* call it again and returns that error
C15_AllsatStopsOnError ==
  (/\ last.kind = "Allsat" /\ ValidOperands /\ last.code > 0
   /\ IsBDD(bdd, last.args[1][1], size(bdd))
   /\ Len(last.out[1]) >= last.code)
    => (Len(last.out[1]) = last.code /\ last.out[2])

\* C15, first half alone: the callback is not called after it returned an error
C15_NotCalledAgain ==
  (/\ last.kind = "Allsat" /\ ValidOperands /\ last.code > 0
   /\ IsBDD(bdd, last.args[1][1], size(bdd))
   /\ Len(last.out[1]) >= last.code)
    => Len(last.out[1]) = last.code

\* no slot of the table carries the mark bit
NoMark(b) == \A k \in 0..(size(b) - 1) : ~ismarked(b.nodes, k)

\* C16: Allnodes called with root nodes leaves no node marked when it returns,
\* whether the callback succeeded on every node or returned an error part-way,
\* and it changes no field of any node
C16_AllnodesRestoresTable ==
  [][(last'.kind = "Allnodes" /\ Len(last'.args) > 0 /\ ~last'.bad)
       => (NoMark(bdd') /\ bdd'.nodes = bdd.nodes /\ ~bdd'.panic)]_vars

\* the callback returned an error at its first call while other nodes were
\* still marked, and no mark is left
C16_AbortedPartWay ==
  /\ last.kind = "Allnodes" /\ Len(last.args) > 0 /\ ~last.bad
  /\ last.code = 1 /\ last.out[2] /\ Len(last.out[1]) = 1
  /\ last.args[1][1] >= 2
  /\ last.out[1][1][1] # last.args[1][1]
  /\ NoMark(bdd)

\* C17: with the option Maxnodesize(m), m > 0, the node table never grows
\* beyond m slots
C17_TableWithinLimit == size(bdd) <= LimitNodesize

\* C18: with the option Maxnodeincrease(0) a resize doubles the table, subject
\* only to Maxnodesize
C18_ResizeDoubles ==
  [][(bdd'.didresize /\ bdd.maxnodeincrease = 0)
       => size(bdd') = (IF 2 * size(bdd) > LimitNodesize THEN LimitNodesize
                        ELSE 2 * size(bdd))]_vars

\* C19: when correctify meets level = level(low) or level = level(high), at
\* any depth of the recursion, Replace sets the error state and returns a nil
\* handle (correctify is the only place where a Replace on a valid operand
\* sets the error)
C19_ReplaceConflict ==
  (last.kind = "Replace" /\ ~last.bad /\ ~last.preerr /\ bdd.error)
    => (~bdd.panic /\ last.node = Nil)

\* C19 for a conflict met by the outermost call of correctify
C19_ConflictAtRoot ==
  /\ last.kind = "Replace" /\ ~last.bad /\ ~last.preerr /\ bdd.error
  /\ ~bdd.panic /\ last.node = Nil

\* the nodes reachable from node n, n included
RECURSIVE ReachFrom(_, _, _)
ReachFrom(b, n, fuel) ==
  IF n < 2 \/ n >= size(b) \/ fuel = 0 THEN {}
  ELSE IF low(b, n) = -1 THEN {}
  ELSE {n} \cup ReachFrom(b, low(b, n), fuel - 1) \cup ReachFrom(b, high(b, n), fuel - 1)

\* the nodes that the user or the running operation still reach: from the
\* pinned nodes of the variables, from the Nodes held and from the reference
\* stack
Protected(b, hs) ==
  UNION {ReachFrom(b, m, size(b)) :
           m \in {b.varset[i][j] : i \in 1..b.varnum, j \in 1..2}
                   \cup {h[1] : h \in BagToSet(hs)} \cup Range(b.refstack)}

\* C20: once every Node on a non-pinned node has expired and the node is
\* reachable neither from another rooted node nor from the reference stack,
\* the next reclamation frees its slot
C20_ExpiredNodeCollected ==
  ~bdd.panic =>
    \A n \in 2..(size(bdd) - 1) :
      (low(bdd, n) # -1 /\ n \notin Protected(bdd, handles))
        => \A g \in gbc(bdd, bdd.refstack) : g.nodes[n + 1].low = -1

\* C21: creating more than MAXREFCOUNT Nodes on the same non-pinned node and
\* letting them expire in any order never drives the count of a node below
\* zero
C21_RefcouNeverNegative ==
  \A n \in 0..(size(bdd) - 1) : nd(bdd, n).refcou >= 0

\* the last of more than MAXREFCOUNT Nodes on a node has expired: it was
\* returned when the count was saturated and carried no finalizer
C21_AllExpired ==
  /\ last.kind = "Finalize" /\ ~last.fin
  /\ handles = EmptyBag
  /\ nd(bdd, last.args[1][1]).refcou = 0

\* C22: at any time the table holds, for every variable i, the positive
\* literal (i, 0, 1) and the negative literal (i, 1, 0) at the ids recorded at
\* creation, with a saturated count, and the constants 0 and 1 with level
\* varnum
C22_LiteralsPinned ==
  /\ Len(bdd.varset) = bdd.varnum
  /\ \A i \in 1..bdd.varnum :
       /\ bdd.varset[i][1] >= 2 /\ bdd.varset[i][1] < size(bdd)
       /\ bdd.varset[i][2] >= 2 /\ bdd.varset[i][2] < size(bdd)
       /\ LET p == nd(bdd, bdd.varset[i][1])
              q == nd(bdd, bdd.varset[i][2])
          IN  /\ p.level = i - 1 /\ p.low = 0 /\ p.high = 1 /\ p.refcou = MAXREFCOUNT
              /\ q.level = i - 1 /\ q.low = 1 /\ q.high = 0 /\ q.refcou = MAXREFCOUNT
  /\ \A c \in 0..1 :
       LET k == nd(bdd, c)
       IN  k.level = bdd.varnum /\ k.low = c /\ k.high = c /\ k.refcou = MAXREFCOUNT

\* a call during which the table was swept and then resized has returned
C22_AfterGbcAndResize ==
  /\ bdd.didgc /\ bdd.didresize /\ ~bdd.panic
  /\ last.kind \in {"Apply", "Not", "Ite"} /\ last.node # Nil

\* C23: Makeset returns the False node and sets the error state when some
\* index of the slice is outside [0, Varnum)
C23_MakesetOutOfRange ==
  (last.kind = "Makeset" /\ \E v \in last.vs : v < 0 \/ v >= bdd.varnum)
    => (~bdd.panic /\ last.set = bddzero /\ bdd.error)

C25_DuplicateIsError ==
  (/\ last.kind = "NewReplacer"
   /\ Len(last.out[1]) = Len(last.out[2])
   /\ \A i \in DOMAIN last.out[1] :
        /\ last.out[1][i] \in 0..(bdd.varnum - 1)
        /\ last.out[2][i] \in 0..(bdd.varnum - 1)
   /\ \E i, j \in DOMAIN last.out[1] :
        i < j /\ (last.out[1][i] = last.out[1][j] \/ last.out[2][i] = last.out[2][j]))
  => last.out[3] = NoReplacer

\* a replacer was returned for newvars that hold the same index twice
C25_DuplicateNewvarAccepted ==
  /\ last.kind = "NewReplacer"
  /\ last.out[1] = <<0, 1>>
  /\ last.out[2] = <<2, 2>>
  /\ last.out[3].err = ""
  /\ ~bdd.panic

\* C26: for every valid node n, Not(Not(n)) returns the identical NodeId n,
\* including when reclamations or resizes happen between or during the two
\* calls.
C26_NotNotIsIdentity ==
  last.kind = "NotNot" => last.node = last.alt

\* the second Not panics on the node that the first Not returned
C26_SecondNotPanics ==
  /\ last.kind = "NotNot"
  /\ ~last.preerr
  /\ bdd.panic

\* C27: once the error state of the engine is set it is never cleared: after
\* any later operation on the same engine, successful or failing, Errored()
\* is still true.
C27_ErrorNeverCleared ==
  [][bdd.error => bdd'.error]_vars

\* an operation that returned a node in an engine whose error state was set
\* by an earlier one
C27_SuccessAfterError ==
  /\ last.preerr
  /\ bdd.error
  /\ last.kind \in {"Not", "Apply", "Ite"}
  /\ ~last.bad
  /\ last.node # Nil

\* C28: during a public operation no node of the reference stack, nor any
\* node under one, is freed by a reclamation that a nested makenode starts;
\* hence no id that a recursive step passes to makenode, and no id that the
\* operation returns, designates a free slot.
C28_StackProtected ==
  bdd.didgc =>
    /\ ~bdd.didfree
    /\ ~bdd.didstale
    /\ (last.kind \notin {"New", "Finalize"} /\ last.node # Nil)
         => ~stale(bdd, last.node[1])

\* an operation that ran a reclamation passed the id of a free slot to
\* makenode, although the reclamation freed nothing under the reference stack
C28_StaleIdAfterGbc ==
  /\ last.kind \notin {"New", "Finalize"}
  /\ bdd.didgc
  /\ ~bdd.didfree
  /\ bdd.didstale

\* C29: after every reclamation, on every path out of makenode including the
\* one where the resize that follows fails, the five operation caches are
\* reset or resized before any further lookup: no entry that a lookup can hit
\* holds, as its operand a or as its result, the id of a freed slot.
C29_NoStaleCacheEntry ==
  \A bc \in {bdd.applycache, bdd.itecache, bdd.quantcache, bdd.appexcache,
             bdd.replacecache} :
    \A k \in DOMAIN bc.table :
      bc.table[k].a # -1 => (~stale(bdd, bc.table[k].a) /\ ~stale(bdd, bc.table[k].res))

\* an operation ended after a reclamation and a failed resize
C29_ResizeFailedAfterGbc ==
  /\ last.kind \notin {"New", "Finalize"}
  /\ bdd.didgc
  /\ bdd.didoom
  /\ ~bdd.didresize
  /\ ~bdd.panic
  /\ \E k \in DOMAIN bdd.applycache.table :
       bdd.applycache.table[k].a # -1 /\ stale(bdd, bdd.applycache.table[k].res)

\* the slots of the free list, from slot n on
RECURSIVE FreeList(_, _, _)
FreeList(b, n, fuel) ==
  IF n = 0 \/ fuel = 0 THEN {}
  ELSE {n} \cup FreeList(b, nd(b, n).next, fuel - 1)

\* the slots that hold a node: the internal nodes that are not on the free
\* list
Allocated(b) == (2..(size(b) - 1)) \ FreeList(b, b.freepos, size(b))

\* the slots of the hash chain that starts at slot n
RECURSIVE ChainSlots(_, _, _)
ChainSlots(b, n, fuel) ==
  IF n = 0 \/ fuel = 0 THEN {}
  ELSE {n} \cup ChainSlots(b, nd(b, n).next, fuel - 1)

\* every slot that the unique index holds
Indexed(b) ==
  UNION {ChainSlots(b, nd(b, k).hash, size(b)) : k \in 0..(size(b) - 1)}

LevelOf(b, n) ==
  IF n < 0 \/ n >= size(b) THEN -1
  ELSE IF n >= 2 /\ n \notin Allocated(b) THEN -1
  ELSE level(b, n) % MARKBIT

\* C31: every internal node stored in the table by any operation, including
\* the nodes that Replace builds through correctify, satisfies
\* level < level(low) and level < level(high), the constants having level
\* Varnum.
C31_NodesOrdered ==
  ~bdd.panic =>
    \A n \in Allocated(bdd) :
      /\ level(bdd, n) < LevelOf(bdd, low(bdd, n))
      /\ level(bdd, n) < LevelOf(bdd, high(bdd, n))

\* Replace returned a Node whose high child is the error value -1
C31_UnorderedNodeReturned ==
  /\ last.kind = "Replace"
  /\ ~last.preerr
  /\ last.node # Nil
  /\ last.node[1] \in Allocated(bdd)
  /\ high(bdd, last.node[1]) = -1

\* TRUE when a lookup that returned v was answered by an entry that w wrote
\* in cache c
AnsweredBy(c, table, w, v) ==
  v >= 0 => \E k \in DOMAIN table : Writers[c][k] = w /\ table[k].res = v

\* C32: a cache lookup hits only on an entry written by the same kind of
\* operation with the same operands and the same discriminator (operator
\* code, quantification id with varset, appex id, replacer id); an entry
\* written for not never satisfies a lookup of apply and conversely, also
\* when entries overwrite each other in a slot.
C32_HitOnlyOwnEntry ==
  /\ \A left, right \in CacheNodes, op \in OPand..OPinvimp :
       AnsweredBy(1, bdd.applycache.table, <<"apply", left, right, op>>,
                  matchapply([bdd EXCEPT !.applycache.op = op], left, right))
  /\ \A n \in CacheNodes :
       AnsweredBy(1, bdd.applycache.table, <<"not", n, 0, opnot>>, matchnot(bdd, n))
  /\ \A f, g, h \in CacheNodes :
       AnsweredBy(2, bdd.itecache.table, <<"ite", f, g, h>>, matchite(bdd, f, g, h))
  /\ \A n, varset \in CacheNodes : \A id \in QuantIds(varset) :
       AnsweredBy(3, bdd.quantcache.table, <<"quant", n, varset, id>>,
                  matchquant([bdd EXCEPT !.quantcache.id = id], n, varset))
  /\ \A left, right, varset \in CacheNodes : \A id \in AppexIds(varset) :
       AnsweredBy(4, bdd.appexcache.table, <<"appex", left, right, id>>,
                  matchappex([bdd EXCEPT !.appexcache.id = id], left, right))
  /\ \A n \in CacheNodes, k \in 1..CacheOps :
       AnsweredBy(5, bdd.replacecache.table, <<"replace", n, 0, k * 4 + cacheidREPLACE>>,
                  matchreplace([bdd EXCEPT !.replacecache.id = k * 4 + cacheidREPLACE], n))

\* an entry of not overwrote an entry of apply in the same slot: the lookup
\* of not hits and the lookup of apply misses
C32_NotOverwroteApply ==
  /\ last.kind = "Cache"
  /\ \E w \in last.vs :
       /\ w[1] = "apply"
       /\ matchapply([bdd EXCEPT !.applycache.op = w[4]], w[2], w[3]) = -1
  /\ \E k \in DOMAIN bdd.applycache.table :
       /\ Writers[1][k][1] = "not"
       /\ matchnot(bdd, Writers[1][k][2]) = bdd.applycache.table[k].res

\* C33: when the callback of Allnodes calls an operation of the engine that
\* triggers a reclamation during the enumeration, no node reachable from a
\* live handle is freed, and the callback is called once on every node
\* reachable from the roots.
C33_EnumerationSurvivesGbc ==
  (last.kind = "Visit" /\ ~last.preerr /\ ~bdd.panic /\ bdd.didgc) =>
    /\ \A t \in last.set : nodeargs(bdd.nodes, t[1]) = t
    /\ Range(last.out) = last.vs
    /\ Len(last.out) = Cardinality(last.vs)

\* an enumeration whose callback triggered a reclamation that freed a node
\* under the root, after which the callback was not called on the root
C33_ChildFreedRootSkipped ==
  /\ last.kind = "Visit" /\ ~last.preerr /\ ~bdd.panic /\ bdd.didgc
  /\ \E t \in last.vs : low(bdd, t[1]) = -1
  /\ \E t \in last.vs : t[1] = last.args[1][1] /\ t \notin Range(last.out)

\* C34: makenode signals out-of-memory only when no free slot is available
\* after the reclamation and the attempted growth; when the reclamation freed
\* a slot, the node is allocated even if the table cannot grow.
C34_OomOnlyWhenFull ==
  (last.kind \notin {"New", "Finalize"} /\ bdd.didoom /\ ~bdd.panic) => bdd.didfull

\* an operation in which makenode reported out-of-memory although each
\* reclamation had left free slots
C34_OomWithFreeSlots ==
  /\ last.kind = "Apply"
  /\ bdd.didgc /\ bdd.didoom /\ ~bdd.didfull /\ ~bdd.didresize
  /\ ~bdd.panic
  /\ bdd.freenum > 0

\* C35: the decrements of the finalizers never interleave with another
\* read-modify-write of the count of the same node: no increment and no
\* decrement is lost, the count of a node that is not pinned is the number of
\* live Nodes on it that carry a finalizer.
C35_NoUpdateLost ==
  ~bdd.panic =>
    \A n \in (2..(size(bdd) - 1))
               \ {bdd.varset[i][j] : i \in 1..bdd.varnum, j \in 1..2} :
      nd(bdd, n).refcou = CopiesIn(<<n, TRUE>>, handles)

\* a call of And returned while the finalizer of an earlier Node on the same
\* node was running, and the decrement of the finalizer is lost
C35_DecrementLost ==
  /\ last.kind = "Apply" /\ last.node # Nil /\ last.fin
  /\ last.node[1] \notin variables(bdd)
  /\ nd(bdd, last.node[1]).refcou = CopiesIn(<<last.node[1], TRUE>>, handles) + 1

\* the slot reached from slot n after k links of the free list
RECURSIVE FreeEnd(_, _, _)
FreeEnd(b, n, k) ==
  IF k = 0 \/ n = 0 THEN n ELSE FreeEnd(b, nd(b, n).next, k - 1)

\* the internal slots whose low field is -1
LowLess(b) == {n \in 2..(size(b) - 1) : low(b, n) = -1}

\* C36: between operations, freenum is the number of slots with low = -1
\* among the ids >= 2, and the free links from freepos visit each of those
\* slots exactly once and end at 0; freepos is 0 exactly when no slot is free.
C36_FreeListExact ==
  ~bdd.panic =>
    /\ bdd.freenum = Cardinality(LowLess(bdd))
    /\ FreeList(bdd, bdd.freepos, size(bdd)) = LowLess(bdd)
    /\ FreeEnd(bdd, bdd.freepos, bdd.freenum) = 0
    /\ (bdd.freepos = 0) <=> (LowLess(bdd) = {})

\* an operation stored a node whose low child is -1: the slot is in use and
\* off the free list
C36_UsedSlotLooksFree ==
  /\ last.kind = "Apply" /\ ~bdd.panic
  /\ \E n \in LowLess(bdd) : n \notin FreeList(bdd, bdd.freepos, size(bdd))
  /\ bdd.freenum < Cardinality(LowLess(bdd))

\* C37: a reclamation does not move or alter the nodes it keeps: every
\* surviving node retains its id, level, low, high and refcou, and its mark
\* bit is clear when the reclamation ends.
C37_KeptNodesUnaltered ==
  (bdd.didgc /\ ~bdd.panic) => ~bdd.didalter

\* a reclamation ran in a call of Apply on a Node that the user holds and
\* kept its node while it freed other slots
C37_HeldNodeKept ==
  /\ last.kind = "Apply" /\ bdd.didgc /\ ~bdd.didresize /\ ~bdd.panic
  /\ bdd.freenum > 0
  /\ \E h \in BagToSet(handles) :
       /\ inode(h[1]) \in Range(last.args)
       /\ low(bdd, h[1]) # -1

Min(x, y) == IF x <= y THEN x ELSE y

Max(x, y) == IF x >= y THEN x ELSE y

\* a limit that applies only when it is not zero
Capped(x, limit) == IF limit > 0 THEN Min(x, limit) ELSE x

C39_ResizeOnlyBelowRatio ==
  (bdd.didgc /\ ~bdd.panic)
    => (bdd.triedresize <=> bdd.gcfree * 100 < bdd.minfreenodes * bdd.gcsize)

\* a resize attempted after a reclamation that left at least minfreenodes
\* percent of the table free
C39_ResizeAtRatio ==
  /\ bdd.didgc /\ ~bdd.panic
  /\ bdd.triedresize
  /\ bdd.gcfree * 100 >= bdd.minfreenodes * bdd.gcsize

\* the largest element of a non-empty set of levels
Largest(S) == CHOOSE x \in S : \A y \in S : y <= x

\* C40: after every call quantset2cache(varset), for any number of earlier
\* calls and also when the epoch counter reaches its maximum and is reset to
\* 1, quantset[L] = quantsetID holds for a level L exactly when L occurs in
\* varset, and quantlast is the largest level of varset.
C40_EpochMarksVarset ==
  (last.kind \in {"Exist", "AppEx"} /\ bdd.didepoch /\ ~bdd.panic) =>
    /\ \A L \in 0..(bdd.varnum - 1) :
         (bdd.quantset[L + 1] = bdd.quantsetID) <=> (L \in last.vs)
    /\ bdd.quantlast = Largest(last.vs)

\* the call on which the epoch counter reached math.MaxInt32 and went back
\* to 1, on a varset that does not hold the variable of the earlier calls
C40_EpochRestarted ==
  /\ last.kind = "Exist" /\ bdd.didepoch /\ ~bdd.panic
  /\ nops = 2
  /\ bdd.quantsetID = 1
  /\ 0 \notin last.vs
  /\ bdd.quantset[1] = 0

====
